---- MODULE Spec2Model ----
(***************************************************************************)
(* Domain Mirror v5 (src/DomainMirrorV5.py): the domain registry, the      *)
(* refresh scheduler, the result store and the mirror dispatcher of the    *)
(* BurpExtender class, as a state machine.                                 *)
(*                                                                         *)
(* Strings whose characters matter (host names, domains) are sequences of  *)
(* one-character strings, so that lower(), strip(), replace(), split() and *)
(* endswith() are computed and not assumed.                                *)
(***************************************************************************)
EXTENDS Integers, Sequences, FiniteSets, TLC

\* ------------------------------------------------------------------------
\* Bounds of the model (not program constants)
\* ------------------------------------------------------------------------

\* Number of entry objects (dicts made by _add_domain_entry) alive at once.
MaxEntries == 3

\* Largest row index the operator console hands to a row-based command.
MaxRow == 3

\* Number of _trigger_refresh threads alive at once.
MaxRefreshers == 2

\* Number of result objects (dicts made by _mirror_request_v2) ever made.
MaxResultIds == 12

\* Number of do_mirror threads alive at once.
MaxDispatches == 2

\* Number of exchanges whose dispatch is started in one run.
MaxExchanges == 2

\* Number of abandoned do_request threads still running at once.
MaxOrphans == 1

\* ------------------------------------------------------------------------
\* Auth mode constants (src lines 43-50)
\* ------------------------------------------------------------------------
AUTH_AUTO == "Auto Detect"
AUTH_COOKIES == "Cookies Only"
AUTH_BEARER == "Bearer Only"
AUTH_BOTH == "Cookies + Bearer"
AUTH_NONE == "None"
AUTH_CUSTOM == "Custom Header"

AUTH_MODES == {AUTH_AUTO, AUTH_COOKIES, AUTH_BEARER, AUTH_BOTH, AUTH_NONE, AUTH_CUSTOM}

\* Python's None
None == "None_value"

\* ------------------------------------------------------------------------
\* Character-level string functions used by the registry
\* ------------------------------------------------------------------------

\* str.lower() on the alphabet of the model
LowerChar(c) ==
    CASE c = "A" -> "a"
      [] c = "B" -> "b"
      [] c = "C" -> "c"
      [] c = "H" -> "h"
      [] c = "I" -> "i"
      [] c = "P" -> "p"
      [] c = "R" -> "r"
      [] c = "X" -> "x"
      [] OTHER -> c

Lower(s) == [i \in 1..Len(s) |-> LowerChar(s[i])]

IsSpace(c) == c \in {" ", "\t"}

RECURSIVE LStrip(_)
LStrip(s) == IF s # <<>> /\ IsSpace(Head(s)) THEN LStrip(Tail(s)) ELSE s

RECURSIVE RStrip(_)
RStrip(s) ==
    IF s # <<>> /\ IsSpace(s[Len(s)]) THEN RStrip(SubSeq(s, 1, Len(s) - 1)) ELSE s

\* str.strip()
Strip(s) == RStrip(LStrip(s))

StartsWith(s, p) == Len(s) >= Len(p) /\ SubSeq(s, 1, Len(p)) = p

\* str.endswith(p)
EndsWith(s, p) == Len(s) >= Len(p) /\ SubSeq(s, Len(s) - Len(p) + 1, Len(s)) = p

\* str.replace(pat, ""): left to right, non-overlapping
RECURSIVE RemoveAll(_, _)
RemoveAll(s, pat) ==
    IF s = <<>> THEN <<>>
    ELSE IF StartsWith(s, pat) THEN RemoveAll(SubSeq(s, Len(pat) + 1, Len(s)), pat)
    ELSE <<Head(s)>> \o RemoveAll(Tail(s), pat)

\* str.split(ch)[0]
RECURSIVE UpTo(_, _)
UpTo(s, ch) ==
    IF s = <<>> \/ Head(s) = ch THEN <<>> ELSE <<Head(s)>> \o UpTo(Tail(s), ch)

HTTPS_PREFIX == <<"h", "t", "t", "p", "s", ":", "/", "/">>
HTTP_PREFIX == <<"h", "t", "t", "p", ":", "/", "/">>

\* _add_domain_entry, lines 302-303
NormalizeDomain(raw) ==
    UpTo(RemoveAll(RemoveAll(Lower(Strip(raw)), HTTPS_PREFIX), HTTP_PREFIX), "/")

\* ------------------------------------------------------------------------
\* Host names of the model
\* ------------------------------------------------------------------------
H_b == <<"b", ".", "c">>
H_ab == <<"a", ".", "b", ".", "c">>
H_x == <<"x", ".", "c">>
H_zb == <<"z", "b", ".", "c">>

\* What the operator types into the Add Domain dialog
RawDomains ==
    { H_b,
      <<"B", ".", "c">>,
      <<" ">> \o H_x \o <<" ">>,
      HTTPS_PREFIX \o H_ab \o <<"/", "p">>,
      <<"/">> }

AddConfigs ==
    [domain : RawDomains, auth_mode : {AUTH_AUTO}]
      \cup {[domain |-> H_zb, auth_mode |-> AUTH_NONE]}

\* ------------------------------------------------------------------------
\* Messages: tokens, cookies, requests, responses
\* ------------------------------------------------------------------------

\* A token string.  exp is the exp claim that _extract_token_expiry decodes
\* from it, None when the token has no three segments, does not decode or
\* has no exp claim.  id = "" is the empty string.
NoToken == [id |-> "", exp |-> None]
T1 == [id |-> "t1", exp |-> "1700000000"]
T2 == [id |-> "t2", exp |-> None]

\* JSON values: a string (a token) or an object
JStr(tok) == [t |-> "str", v |-> tok]
JObj(obj) == [t |-> "obj", v |-> obj]

\* Response bodies: text identifies the body's characters; json is the
\* object json.loads returns when the text starts with "{"
B_A == [text |-> "A", size |-> 1, is_json |-> FALSE, json |-> <<>>]
B_B == [text |-> "B", size |-> 1, is_json |-> FALSE, json |-> <<>>]
B_J == [text |-> "{J}", size |-> 3, is_json |-> TRUE,
        json |-> [access_token |-> JStr(T1),
                  data |-> JObj([refresh_token |-> JStr(T2)])]]

\* hashlib.md5(body).hexdigest(): equal exactly for equal body texts
Md5(body) == <<"md5", body.text>>

\* Request targets
P_d == <<"/", "d">>
P_refresh == <<"/", "r", "e", "f", "r", "e", "s", "h">>
P_token_refresh == <<"/", "t", "o", "k", "e", "n">> \o P_refresh
P_auth_refresh == <<"/", "a", "u", "t", "h">> \o P_refresh

\* self.refresh_patterns (line 91)
refresh_patterns == <<P_refresh, P_token_refresh, P_auth_refresh>>

\* p in s
Contains(s, p) ==
    \E i \in 1..(Len(s) - Len(p) + 1) : SubSeq(s, i, i + Len(p) - 1) = p

\* A test that finds no refresh endpoint
IsRefreshPath_Never(path) == FALSE

\* any(p in path.lower() for p in self.refresh_patterns)
IsRefreshPath(path) ==
    \E k \in 1..Len(refresh_patterns) : Contains(Lower(path), refresh_patterns[k])

\* url.getPath(): the target without its query
UrlPath(target) == UpTo(target, "?")

\* An observed or built request.  empty: no request bytes.  authorization:
\* the token of an "Authorization: Bearer" header, NoToken without one.
\* cookie: the name=value pairs of the Cookie header.  marker: the request
\* has the line "X-DomainMirror-Internal: true".
Req(target, authorization, cookie, marker) ==
    [empty |-> FALSE, method |-> "GET", target |-> target,
     authorization |-> authorization, cookie |-> cookie, marker |-> marker,
     quotes_marker |-> FALSE, bare_lf |-> FALSE,
     head_authorization |-> NoToken, head_cookie |-> <<>>]

\* The same request with the text "X-DomainMirror-Internal: true" in its
\* body (or inside the value of another header)
Quoting(request) == [request EXCEPT !.quotes_marker = TRUE]

\* The same request with its header lines ended by a bare "\n" and with
\* "\r\n\r\n" further on, in its body.  head_authorization and head_cookie
\* are the Authorization and Cookie lines that the first element of a built
\* request's header list carries along with the request line.
BareLf(request) == [request EXCEPT !.bare_lf = TRUE]

NoRequest ==
    [empty |-> TRUE, method |-> "", target |-> <<>>,
     authorization |-> NoToken, cookie |-> <<>>, marker |-> FALSE,
     quotes_marker |-> FALSE, bare_lf |-> FALSE,
     head_authorization |-> NoToken, head_cookie |-> <<>>]

\* A response.  empty: no response bytes.  malformed: analyzeResponse raises.
\* set_cookie: the name=value pairs of its Set-Cookie headers.
Resp(status, set_cookie, body) ==
    [empty |-> FALSE, malformed |-> FALSE, status |-> status,
     set_cookie |-> set_cookie, body |-> body]

NoResponse ==
    [empty |-> TRUE, malformed |-> FALSE, status |-> 0, set_cookie |-> <<>>, body |-> B_A]

BadResponse ==
    [empty |-> FALSE, malformed |-> TRUE, status |-> 0, set_cookie |-> <<>>, body |-> B_A]

\* ------------------------------------------------------------------------
\* State
\* ------------------------------------------------------------------------
VARIABLES
    entries,                \* the entry dicts, by object identity: id -> dict or NoEntry
    domains,                \* self.domains: the ArrayList of entry objects (ids)
    pending_refresh,        \* self.pending_refresh: set of domains being refreshed
    refreshers,             \* the threads running _trigger_refresh
    result_objs,            \* the result dicts, by object identity: id -> dict or NoResult
    results,                \* self.results: the ArrayList of result objects (ids)
    inserted,               \* history: the results handed to _add_result, in order
    active_mirror_threads,  \* self._active_mirror_threads
    dispatches,             \* the threads running do_mirror / _mirror_request_v2
    orphans,                \* do_request threads whose caller gave up on timeout
    log,                    \* kinds of messages written by self._log
    settings,               \* flags and limits set in registerExtenderCallbacks / Settings
    domains_lock,           \* self.domains_lock: the thread that holds it across steps
    refresh_all,            \* the thread running _refresh_all_sessions
    capturers,              \* threads inside a capture of a session
    observed                \* history: the last call of a listener and its arguments

regVars == <<entries, domains>>
refreshVars == <<pending_refresh, refreshers>>
storeVars == <<result_objs, results, inserted>>
dispatchVars == <<active_mirror_threads, dispatches, orphans, log>>
threadVars == <<domains_lock, refresh_all, capturers>>

\* The extension's own state
progVars == <<entries, domains, pending_refresh, refreshers, result_objs, results,
              inserted, active_mirror_threads, dispatches, orphans, log, settings, threadVars>>

vars == <<progVars, observed>>

EntryIds == 1..MaxEntries
NoEntry == [domain |-> <<>>]

\* The session dict of a new or cleared entry (lines 325-332, 378-385)
EmptySession ==
    [cookies |-> <<>>, bearer |-> NoToken, refresh_token |-> NoToken,
     token_expiry |-> None, last_updated |-> None, status |-> "waiting"]

InRegistry(id) == \E i \in 1..Len(domains) : domains[i] = id

\* Entry objects some running thread still holds a reference to: the entry of
\* a refresh in progress, the mirror_list of a dispatch in progress
Referenced(id) ==
    \/ \E t \in DOMAIN refreshers :
          refreshers[t].pc = "sending" /\ refreshers[t].entry = id
    \/ \E d \in DOMAIN dispatches :
          /\ dispatches[d].pc \in {"start", "loop", "wait"}
          /\ \E i \in 1..Len(dispatches[d].mirror_list) :
                dispatches[d].mirror_list[i] = id

FreeIds == {id \in EntryIds : ~InRegistry(id) /\ ~Referenced(id)}

MinOf(S) == CHOOSE x \in S : \A y \in S : x <= y

\* ArrayList.remove(int index)
RemoveAt(seq, i) == SubSeq(seq, 1, i - 1) \o SubSeq(seq, i + 1, Len(seq))

\* ------------------------------------------------------------------------
\* Domain Registry
\* ------------------------------------------------------------------------

\* config.get(key, default)
Get(config, key, default) ==
    IF key \in DOMAIN config THEN config[key] ELSE default

NewEntry(domain, is_primary, config) ==
    [domain |-> domain,
     is_primary |-> is_primary,
     auth_mode |-> config.auth_mode,
     custom_header_name |-> Get(config, "custom_header_name", <<>>),
     custom_header_value |-> Get(config, "custom_header_value", <<>>),
     session |-> EmptySession]

\* _add_domain_entry(config)
AddDomainEntry(config) ==
    LET domain == NormalizeDomain(config.domain) IN
    /\ FreeIds # {}
    /\ IF domain = <<>>
          \/ \E i \in 1..Len(domains) : entries[domains[i]].domain = domain
       THEN UNCHANGED regVars
       ELSE LET id == MinOf(FreeIds) IN
            /\ entries' = [entries EXCEPT
                             ![id] = NewEntry(domain, Len(domains) = 0, config)]
            /\ domains' = Append(domains, id)

\* _show_edit_domain_dialog with the selected row and the dialog's result
\* (lines 274-298, 3154-3166): the domain as typed and the auth mode are
\* stored; the session, its status included, is left as it is
EditDomain(row, config) ==
    IF row < 0 \/ ~(row < Len(domains)) \/ Strip(config.domain) = <<>>
    THEN UNCHANGED regVars
    ELSE /\ entries' =
              [entries EXCEPT
                 ![domains[row + 1]].domain = Strip(config.domain),
                 ![domains[row + 1]].auth_mode = config.auth_mode,
                 ![domains[row + 1]].custom_header_name =
                    Get(config, "custom_header_name", <<>>),
                 ![domains[row + 1]].custom_header_value =
                    Get(config, "custom_header_value", <<>>)]
         /\ UNCHANGED domains

\* A clear that resets the session of every entry of the registry
ClearSelectedSession_AllEntries(row) ==
    IF row < 0 \/ ~(row < Len(domains))
    THEN UNCHANGED regVars
    ELSE /\ entries' =
              [id \in EntryIds |->
                 IF InRegistry(id)
                 THEN [entries[id] EXCEPT !.session = EmptySession]
                 ELSE entries[id]]
         /\ UNCHANGED domains

\* _clear_selected_session with the selected row (lines 369-389): the entry
\* at that row gets a new session dict
ClearSelectedSession(row) ==
    IF row < 0 \/ ~(row < Len(domains))
    THEN UNCHANGED regVars
    ELSE /\ entries' = [entries EXCEPT ![domains[row + 1]].session = EmptySession]
         /\ UNCHANGED domains

\* A removal that promotes nothing
RemoveDomain_NoPromotion(row) ==
    IF row < 0 \/ ~(row < Len(domains))
    THEN UNCHANGED regVars
    ELSE /\ domains' = SubSeq(domains, 1, row) \o SubSeq(domains, row + 2, Len(domains))
         /\ entries' =
              [id \in 1..MaxEntries |->
                 IF id = domains[row + 1] THEN [domain |-> <<>>] ELSE entries[id]]

\* _remove_domain with the console's selected row (0-based)
RemoveDomain(row) ==
    IF row < 0 \/ ~(row < Len(domains))
    THEN UNCHANGED regVars
    ELSE LET removed == domains[row + 1]
             rest == RemoveAt(domains, row + 1)
             promoted == entries[removed].is_primary /\ Len(rest) > 0
         IN
         /\ domains' = rest
         /\ entries' =
              [id \in EntryIds |->
                 IF id = removed /\ ~Referenced(id) THEN NoEntry
                 ELSE IF promoted /\ id = rest[1]
                      THEN [entries[id] EXCEPT !.is_primary = TRUE]
                      ELSE entries[id]]

\* _set_primary with the console's selected row (0-based)
SetPrimary(row) ==
    IF row < 0
    THEN UNCHANGED regVars
    ELSE /\ entries' =
              [id \in EntryIds |->
                 IF \E i \in 1..Len(domains) : domains[i] = id
                 THEN [entries[id] EXCEPT
                         !.is_primary =
                            \E i \in 1..Len(domains) : domains[i] = id /\ i - 1 = row]
                 ELSE entries[id]]
         /\ UNCHANGED domains

Rows == -1..MaxRow

\* A match on any host that ends with the domain
MatchesHost_AnySuffix(domain, host) == EndsWith(host, domain)

\* _get_domain_entry(host): the first entry, in list order, whose domain is the
\* host or a parent of it; 0 for None
MatchesHost(domain, host) == domain = host \/ EndsWith(host, <<".">> \o domain)

GetDomainEntry(host) ==
    LET hits == {i \in 1..Len(domains) : MatchesHost(entries[domains[i]].domain, host)}
    IN IF hits = {} THEN 0 ELSE domains[MinOf(hits)]

\* _get_mirror_domains(): the non-primary entries in list order
RECURSIVE MirrorsOf(_)
MirrorsOf(ds) ==
    IF ds = <<>> THEN <<>>
    ELSE IF entries[Head(ds)].is_primary THEN MirrorsOf(Tail(ds))
         ELSE <<Head(ds)>> \o MirrorsOf(Tail(ds))

GetMirrorDomains == MirrorsOf(domains)

\* ------------------------------------------------------------------------
\* Session Capture Engine
\* ------------------------------------------------------------------------

\* time.time()
Now == "now"

\* A capture that takes the bearer in every mode
BearerInScope_Always(auth_mode) == TRUE

\* if auth_mode in [AUTH_AUTO, AUTH_BEARER, AUTH_BOTH] (lines 2248, 2664)
BearerInScope(auth_mode) == auth_mode \in {AUTH_AUTO, AUTH_BEARER, AUTH_BOTH}
CookiesInScope(auth_mode) == auth_mode \in {AUTH_AUTO, AUTH_COOKIES, AUTH_BOTH}

\* _update_session_status, lines 2339-2340: bool(session.get("cookies")) and
\* bool(session.get("bearer"))
HasCookies(session) == DOMAIN session.cookies # {}
HasBearer(session) == session.bearer.id # ""

\* _update_session_status, lines 2342-2361: the status written for the two
\* values read at lines 2339-2340
SessionStatus(auth_mode, has_cookies, has_bearer, status) ==
    CASE auth_mode = AUTH_AUTO ->
           IF has_bearer \/ has_cookies THEN "ready" ELSE "waiting"
      [] auth_mode = AUTH_COOKIES ->
           IF has_cookies THEN "ready"
           ELSE IF has_bearer THEN "capturing" ELSE "waiting"
      [] auth_mode = AUTH_BEARER ->
           IF has_bearer THEN "ready"
           ELSE IF has_cookies THEN "capturing" ELSE "waiting"
      [] auth_mode = AUTH_BOTH ->
           IF has_cookies /\ has_bearer THEN "ready"
           ELSE IF has_cookies \/ has_bearer THEN "capturing" ELSE "waiting"
      [] auth_mode = AUTH_CUSTOM -> "ready"
      [] auth_mode = AUTH_NONE -> "ready"
      [] OTHER -> status

\* A recompute without the capturing state
UpdateSessionStatus_NoCapturing(session, auth_mode) ==
    [session EXCEPT
       !.status = IF auth_mode \in {AUTH_CUSTOM, AUTH_NONE}
                     \/ DOMAIN session.cookies # {} \/ session.bearer.id # ""
                  THEN "ready" ELSE "waiting"]

\* _update_session_status(session, auth_mode)
UpdateSessionStatus(session, auth_mode) ==
    [session EXCEPT !.status =
       SessionStatus(auth_mode, HasCookies(session), HasBearer(session), session.status)]

\* _extract_token_expiry(session, token): every failure is swallowed and
\* leaves token_expiry as it was
ExtractTokenExpiry(session, token) ==
    IF token.exp # None THEN [session EXCEPT !.token_expiry = token.exp] ELSE session

\* session["cookies"][name] = value
SetCookie(cookies, name, value) ==
    [n \in DOMAIN cookies \cup {name} |-> IF n = name THEN value ELSE cookies[n]]

\* The cookie loop of _capture_from_request (lines 2263-2269): a pair is
\* stored, and counts as an update, when the stored value differs
RECURSIVE MergeRequestCookies(_, _)
MergeRequestCookies(acc, pairs) ==
    IF pairs = <<>> THEN acc
    ELSE LET name == Head(pairs)[1]
             value == Head(pairs)[2]
             same == name \in DOMAIN acc.cookies /\ acc.cookies[name] = value
         IN MergeRequestCookies(
              IF same THEN acc
              ELSE [cookies |-> SetCookie(acc.cookies, name, value), updated |-> TRUE],
              Tail(pairs))

\* The Set-Cookie loop of _capture_from_response (lines 2303-2311): every
\* pair is stored
RECURSIVE MergeSetCookies(_, _)
MergeSetCookies(cookies, pairs) ==
    IF pairs = <<>> THEN cookies
    ELSE MergeSetCookies(SetCookie(cookies, Head(pairs)[1], Head(pairs)[2]), Tail(pairs))

\* _capture_from_request, lines 2229-2273: the session after the loop over
\* the headers and the local variable updated
RequestHeaderLoop(entry, request) ==
    LET auth_mode == entry.auth_mode
        session == entry.session
        token == request.authorization
        new_bearer == /\ BearerInScope(auth_mode)
                      /\ token.id # ""
                      /\ token # session.bearer
        s1 == IF new_bearer
              THEN ExtractTokenExpiry(
                     [session EXCEPT !.bearer = token, !.last_updated = Now], token)
              ELSE session
        merged == IF CookiesInScope(auth_mode)
                  THEN MergeRequestCookies(
                         [cookies |-> s1.cookies, updated |-> FALSE], request.cookie)
                  ELSE [cookies |-> s1.cookies, updated |-> FALSE]
        updated == new_bearer \/ merged.updated
        s2 == IF updated
              THEN [s1 EXCEPT !.cookies = merged.cookies, !.last_updated = Now]
              ELSE s1
    IN IF request.empty \/ auth_mode = AUTH_NONE
       THEN [session |-> session, updated |-> FALSE]
       ELSE [session |-> s2, updated |-> updated]

\* _capture_from_request(host, request, entry), run without another thread
\* in between: the header loop, then lines 2275-2276
CaptureFromRequest(entry, request) ==
    LET looped == RequestHeaderLoop(entry, request)
    IN IF looped.updated
       THEN UpdateSessionStatus(looped.session, entry.auth_mode)
       ELSE looped.session

\* Threads of Burp that run _capture_from_request for a message each (the
\* listeners are called on the thread of the tool that made the request, and
\* no lock is taken around a capture). pc is "idle" before the call, "update"
\* at line 2275 with updated true, "status" between the reads of lines
\* 2339-2340 and the assignment to session["status"], "done" after the return
MaxCapturers == 2
CapturerSlots == 1..MaxCapturers

IdleCapturer ==
    [pc |-> "idle", entry |-> 0, has_cookies |-> FALSE, has_bearer |-> FALSE]

\* _capture_from_request, lines 2229-2273: the header loop stores what the
\* request carries
CaptureStore(c, id, request) ==
    LET looped == RequestHeaderLoop(entries[id], request) IN
    /\ capturers[c].pc = "idle"
    /\ entries' = [entries EXCEPT ![id].session = looped.session]
    /\ capturers' = [capturers EXCEPT
                       ![c].pc = IF looped.updated THEN "update" ELSE "done",
                       ![c].entry = id]
    /\ UNCHANGED <<domains, refreshVars, storeVars, dispatchVars, settings,
                   domains_lock, refresh_all, observed>>

\* _update_session_status, lines 2339-2340: the two reads of the session
CaptureRead(c) ==
    LET session == entries[capturers[c].entry].session IN
    /\ capturers[c].pc = "update"
    /\ capturers' = [capturers EXCEPT
                       ![c].pc = "status",
                       ![c].has_cookies = HasCookies(session),
                       ![c].has_bearer = HasBearer(session)]
    /\ UNCHANGED <<regVars, refreshVars, storeVars, dispatchVars, settings,
                   domains_lock, refresh_all, observed>>

\* _update_session_status, lines 2342-2361: the assignment to
\* session["status"] from the values read before
CaptureWrite(c) ==
    LET id == capturers[c].entry IN
    /\ capturers[c].pc = "status"
    /\ entries' = [entries EXCEPT
                     ![id].session.status =
                        SessionStatus(entries[id].auth_mode, capturers[c].has_cookies,
                                      capturers[c].has_bearer, entries[id].session.status)]
    /\ capturers' = [capturers EXCEPT ![c].pc = "done"]
    /\ UNCHANGED <<domains, refreshVars, storeVars, dispatchVars, settings,
                   domains_lock, refresh_all, observed>>

\* self.token_keys, self.refresh_token_keys (lines 92-93)
token_keys == <<"access_token", "accessToken", "token", "id_token", "jwt", "bearer">>
refresh_token_keys == <<"refresh_token", "refreshToken">>

\* find_value(d, keys) of _extract_tokens_from_json: NoToken for None
RECURSIVE FindValue(_, _)
FindValue(d, keys) ==
    IF keys = <<>> THEN JStr(NoToken)
    ELSE LET key == Head(keys) IN
         IF key \in DOMAIN d THEN d[key]
         ELSE IF "data" \in DOMAIN d /\ d["data"].t = "obj" /\ key \in DOMAIN d["data"].v
              THEN d["data"].v[key]
         ELSE IF "result" \in DOMAIN d /\ d["result"].t = "obj"
                 /\ key \in DOMAIN d["result"].v
              THEN d["result"].v[key]
         ELSE FindValue(d, Tail(keys))

\* _extract_tokens_from_json(session, body, host), for string values
ExtractTokensFromJson(session, data) ==
    LET token == FindValue(data, token_keys)
        got_token == token.t = "str" /\ token.v.id # "" /\ token.v # session.bearer
        s1 == IF got_token
              THEN ExtractTokenExpiry(
                     [session EXCEPT !.bearer = token.v, !.last_updated = Now], token.v)
              ELSE session
        refresh == FindValue(data, refresh_token_keys)
        got_refresh == /\ refresh.t = "str" /\ refresh.v.id # ""
                       /\ refresh.v # session.refresh_token
        s2 == IF got_refresh
              THEN [s1 EXCEPT !.refresh_token = refresh.v, !.last_updated = Now]
              ELSE s1
    IN [session |-> s2, updated |-> got_token \/ got_refresh]

\* _capture_from_response, lines 2280-2325: the entry's session afterwards
CaptureFromResponse(entry, request, response) ==
    LET auth_mode == entry.auth_mode
        session == entry.session
        with_cookies == CookiesInScope(auth_mode) /\ response.set_cookie # <<>>
        s1 == IF with_cookies
              THEN [session EXCEPT
                      !.cookies = MergeSetCookies(session.cookies, response.set_cookie),
                      !.last_updated = Now]
              ELSE session
        parsed == IF BearerInScope(auth_mode) /\ response.body.is_json
                  THEN ExtractTokensFromJson(s1, response.body.json)
                  ELSE [session |-> s1, updated |-> FALSE]
        updated == with_cookies \/ parsed.updated
    IN IF response.empty \/ response.malformed \/ auth_mode = AUTH_NONE THEN session
       ELSE IF updated THEN UpdateSessionStatus(parsed.session, auth_mode)
       ELSE parsed.session

\* A propagation that does not ask whether the entry is primary
PropagatesRefresh_AnyEntry(entry, request, response) ==
    LET request_path == IF request.empty THEN <<>> ELSE UrlPath(request.target)
    IN /\ ~response.empty /\ ~response.malformed
       /\ entry.auth_mode # AUTH_NONE
       /\ IsRefreshPath(request_path)
       /\ settings.auto_refresh_mirrors

\* _capture_from_response, lines 2286-2298 and 2328: the capture reaches the
\* loop over self._get_mirror_domains()
PropagatesRefresh(entry, request, response) ==
    LET request_path == IF request.empty THEN <<>> ELSE UrlPath(request.target)
    IN /\ ~response.empty /\ ~response.malformed
       /\ entry.auth_mode # AUTH_NONE
       /\ IsRefreshPath(request_path)
       /\ entry.is_primary
       /\ settings.auto_refresh_mirrors

\* _capture_from_response, lines 2327-2335: the domains whose refresh the
\* capture starts, each on a thread of its own
RefreshesStartedBy(entry, request, response, mirrors) ==
    IF PropagatesRefresh(entry, request, response)
    THEN [i \in 1..Len(mirrors) |-> entries[mirrors[i]].domain]
    ELSE <<>>

\* ------------------------------------------------------------------------
\* Refresh Scheduler
\* ------------------------------------------------------------------------
RefresherSlots == 1..MaxRefreshers

\* threading.Lock (lines 33 and 84): a lock that is held belongs to one
\* thread, and acquire() blocks every thread while it is held, the holder
\* included. Only _refresh_all_sessions holds domains_lock across steps: every
\* other holder takes and releases it within one step.
NoThread == "none"
RefreshAllThread == "refresh_all"

\* with self.domains_lock: the thread can enter
DomainsLockFree == domains_lock = NoThread

\* The thread of the "Refresh All Sessions" button (lines 230-233): pc is
\* "idle" before the button is pressed, "loop" at the head of the for loop of
\* line 522, "call" inside self._trigger_refresh (line 524), "done" after the
\* with block; i is the loop index, size the value of self.domains.size()
\* that range() was given, slot the refresher record of the call
IdleRefreshAll == [pc |-> "idle", i |-> 0, size |-> 0, slot |-> 0]

\* A thread that is not running: never started, returned at line 2421
\* ("deduped"), or returned through the finally clause ("done")
FinishedPcs == {"idle", "deduped", "done"}

IdleRefresher == [pc |-> "idle", domain |-> <<>>, entry |-> 0]

FreeRefreshers(rf) ==
    {t \in RefresherSlots : rf[t].pc \in FinishedPcs /\ t # refresh_all.slot}

\* Thread(target=lambda: self._trigger_refresh(m)).start() for each m of doms
RECURSIVE StartRefreshThreads(_, _)
StartRefreshThreads(rf, doms) ==
    IF doms = <<>> THEN rf
    ELSE StartRefreshThreads(
           [rf EXCEPT ![MinOf(FreeRefreshers(rf))] =
                        [pc |-> "start", domain |-> Head(doms), entry |-> 0]],
           Tail(doms))

\* dict.items() in some order
RECURSIVE CookiePairs(_)
CookiePairs(cookies) ==
    IF DOMAIN cookies = {} THEN <<>>
    ELSE LET n == CHOOSE n \in DOMAIN cookies : TRUE IN
         <<<<n, cookies[n]>>>>
           \o CookiePairs([m \in DOMAIN cookies \ {n} |-> cookies[m]])

\* The request _trigger_refresh builds (lines 2436-2452)
RefreshRequest(entry) ==
    Req(refresh_patterns[1],
        IF entry.session.bearer.id # "" /\ BearerInScope(entry.auth_mode)
        THEN entry.session.bearer ELSE NoToken,
        IF DOMAIN entry.session.cookies # {} /\ CookiesInScope(entry.auth_mode)
        THEN CookiePairs(entry.session.cookies) ELSE <<>>,
        FALSE)

\* A check that never finds the domain pending
AlreadyPending_Never(domain) == FALSE

\* line 2420: domain in self.pending_refresh
AlreadyPending(domain) == domain \in pending_refresh

\* _trigger_refresh, lines 2419-2422, under pending_refresh_lock
TriggerCheck(t) ==
    /\ refreshers[t].pc = "start"
    /\ IF AlreadyPending(refreshers[t].domain)
       THEN /\ refreshers' = [refreshers EXCEPT ![t].pc = "deduped"]
            /\ UNCHANGED pending_refresh
       ELSE /\ pending_refresh' = pending_refresh \cup {refreshers[t].domain}
            /\ refreshers' = [refreshers EXCEPT ![t].pc = "prepare"]
    /\ UNCHANGED <<regVars, storeVars, dispatchVars, settings, threadVars, observed>>

\* _trigger_refresh, lines 2424-2453: look the entry up (_get_domain_entry
\* enters domains_lock, line 2184) and build the request; a return goes
\* through the finally clause (lines 2463-2465)
TriggerPrepare(t) ==
    LET domain == refreshers[t].domain
        entry == GetDomainEntry(domain)
        nothing_to_send ==
            \/ entry = 0
            \/ /\ entries[entry].session.refresh_token.id = ""
               /\ DOMAIN entries[entry].session.cookies = {}
    IN
    /\ refreshers[t].pc = "prepare"
    /\ DomainsLockFree
    /\ IF nothing_to_send
       THEN /\ pending_refresh' = pending_refresh \ {domain}
            /\ refreshers' = [refreshers EXCEPT ![t].pc = "done"]
       ELSE /\ refreshers' = [refreshers EXCEPT ![t].pc = "sending", ![t].entry = entry]
            /\ UNCHANGED pending_refresh
    /\ UNCHANGED <<regVars, storeVars, dispatchVars, settings, threadVars, observed>>

\* What self._callbacks.makeHttpRequest does: it raises, returns None, or
\* returns a message with the given response bytes
Responses ==
    { NoResponse, BadResponse,
      Resp(200, <<>>, B_A),
      Resp(200, <<>>, B_B),
      Resp(200, << <<"sid", "2">> >>, B_J) }

TransportOutcomes ==
    {[kind |-> "raise", response |-> NoResponse], [kind |-> "none", response |-> NoResponse]}
      \cup [kind : {"response"}, response : Responses]

\* _trigger_refresh, lines 2455-2465: the send returns; capture, then the
\* finally clause
TriggerComplete(t, outcome) ==
    LET domain == refreshers[t].domain
        id == refreshers[t].entry
        request == RefreshRequest(entries[id])
        response == outcome.response
        captured == outcome.kind = "response" /\ ~response.empty
        started == IF captured
                   THEN RefreshesStartedBy(entries[id], request, response, GetMirrorDomains)
                   ELSE <<>>
    IN
    /\ refreshers[t].pc = "sending"
    /\ captured /\ PropagatesRefresh(entries[id], request, response) => DomainsLockFree
    /\ Cardinality(FreeRefreshers(refreshers)) >= Len(started)
    /\ entries' = IF captured
                  THEN [entries EXCEPT
                          ![id].session = CaptureFromResponse(entries[id], request, response)]
                  ELSE entries
    /\ refreshers' =
         [StartRefreshThreads(refreshers, started) EXCEPT ![t].pc = "done", ![t].entry = 0]
    /\ pending_refresh' = pending_refresh \ {domain}
    /\ UNCHANGED <<domains, storeVars, dispatchVars, settings, threadVars, observed>>

\* A caller starts a thread that runs _trigger_refresh(domain)
\* (lines 2330-2335)
TriggerStart(domain) ==
    /\ FreeRefreshers(refreshers) # {}
    /\ refreshers' = StartRefreshThreads(refreshers, <<domain>>)
    /\ UNCHANGED <<regVars, pending_refresh, storeVars, dispatchVars, settings, threadVars, observed>>

\* _refresh_all_sessions, line 521: the thread enters domains_lock;
\* line 522: range(self.domains.size())
RefreshAllBegin ==
    /\ refresh_all.pc = "idle"
    /\ DomainsLockFree
    /\ domains_lock' = RefreshAllThread
    /\ refresh_all' = [refresh_all EXCEPT !.pc = "loop", !.i = 1, !.size = Len(domains)]
    /\ UNCHANGED <<regVars, refreshVars, storeVars, dispatchVars, settings, capturers, observed>>

\* _refresh_all_sessions, lines 522-524: the next round of the loop calls
\* self._trigger_refresh(domain) on this thread, the lock still held; after
\* the last round the with block ends and the lock is released
RefreshAllNext ==
    /\ refresh_all.pc = "loop"
    /\ IF refresh_all.i > refresh_all.size
       THEN /\ refresh_all' = [refresh_all EXCEPT !.pc = "done"]
            /\ domains_lock' = NoThread
            /\ UNCHANGED refreshers
       ELSE LET t == MinOf(FreeRefreshers(refreshers))
                domain == entries[domains[refresh_all.i]].domain
            IN /\ FreeRefreshers(refreshers) # {}
               /\ refreshers' = [refreshers EXCEPT
                                   ![t] = [pc |-> "start", domain |-> domain, entry |-> 0]]
               /\ refresh_all' = [refresh_all EXCEPT !.pc = "call", !.slot = t]
               /\ UNCHANGED domains_lock
    /\ UNCHANGED <<regVars, pending_refresh, storeVars, dispatchVars, settings, capturers, observed>>

\* _refresh_all_sessions, line 524: self._trigger_refresh(domain) has returned
RefreshAllReturn ==
    /\ refresh_all.pc = "call"
    /\ refreshers[refresh_all.slot].pc \in {"deduped", "done"}
    /\ refresh_all' = [refresh_all EXCEPT !.pc = "loop", !.i = refresh_all.i + 1, !.slot = 0]
    /\ UNCHANGED <<regVars, refreshVars, storeVars, dispatchVars, settings,
                   domains_lock, capturers, observed>>

\* ------------------------------------------------------------------------
\* Result Store
\* ------------------------------------------------------------------------
ResultIds == 1..MaxResultIds
NoResult == [method |-> ""]

AllocatedResults == {id \in ResultIds : result_objs[id] # NoResult}
FreeResultIds == ResultIds \ AllocatedResults

\* One entry of result["responses"] (lines 2771-2776, 2835-2840)
ResponseRecord(response) ==
    [hash |-> Md5(response.body), status |-> response.status,
     size |-> response.body.size, body |-> response.body.text]

\* _add_result, lines 1873-1874: while size >= max: remove(0)
RECURSIVE EvictOldest(_, _)
EvictOldest(rs, max_results) ==
    IF Len(rs) >= max_results THEN EvictOldest(Tail(rs), max_results) ELSE rs

\* An insertion without the eviction loop
AddResult_NoEviction(rs, max_results, result) == Append(rs, result)

\* _add_result(result): the list afterwards
AddResult(rs, max_results, result) == Append(EvictOldest(rs, max_results), result)

\* ------------------------------------------------------------------------
\* Mirror Dispatcher: the do_mirror thread
\* ------------------------------------------------------------------------
DispatchSlots == 1..MaxDispatches

\* pc: "idle" not running; "start" thread started, permit held; "loop" at
\* the head of the for loop; "wait" inside _make_request_with_timeout;
\* "publish" match computed, before _add_result; "finally" in the finally
\* clause of do_mirror.  outcomes is a history: what each mirror's send
\* ended with.
IdleDispatch ==
    [pc |-> "idle", request |-> NoRequest, response |-> NoResponse,
     primary_host |-> <<>>, mirror_list |-> <<>>, idx |-> 0,
     mirror_domain |-> <<>>, mirrored_req |-> NoRequest, result |-> 0,
     hashes |-> <<>>, outcomes |-> <<>>]

FreeDispatches == {d \in DispatchSlots : dispatches[d].pc = "idle"}

\* A test that always grants a permit
PermitAvailable_Always == TRUE

\* _can_start_mirror_thread, line 1912
PermitAvailable == ~(active_mirror_threads >= settings.max_concurrent_mirrors)

\* A finally clause that gives back two permits
Released_Twice(n) == IF n - 2 > 0 THEN n - 2 ELSE 0

\* _mirror_thread_finished, line 1920
Released(n) == IF n - 1 > 0 THEN n - 1 ELSE 0

\* A comparison that wants at least one mirror hash
AllSame_NeedsTwo(hashes) ==
    Len(hashes) > 1 /\ Cardinality({hashes[i] : i \in 1..Len(hashes)}) = 1

\* len(set(hashes)) == 1
AllSame(hashes) == Cardinality({hashes[i] : i \in 1..Len(hashes)}) = 1

\* _mirror_request_v2, lines 2735-2782: the early returns, the exception of
\* analyzeResponse (caught at line 2879), or the seeded result
MirrorBegin(d) ==
    LET me == dispatches[d]
        path == me.request.target
        aborts == \/ me.request.empty \/ me.response.empty
                  \/ IsRefreshPath(path)
                  \/ me.response.malformed
        id == MinOf(FreeResultIds)
    IN
    /\ me.pc = "start"
    /\ IF aborts
       THEN /\ dispatches' = [dispatches EXCEPT ![d].pc = "finally"]
            /\ UNCHANGED result_objs
       ELSE /\ FreeResultIds # {}
            /\ result_objs' =
                 [result_objs EXCEPT
                    ![id] = [method |-> me.request.method, path |-> path, match |-> TRUE,
                             responses |->
                               [h \in {me.primary_host} |-> ResponseRecord(me.response)]]]
            /\ dispatches' =
                 [dispatches EXCEPT
                    ![d].pc = "loop", ![d].idx = 1, ![d].result = id,
                    ![d].hashes = <<Md5(me.response.body)>>]
    /\ UNCHANGED <<regVars, refreshVars, results, inserted, active_mirror_threads,
                   orphans, log, settings, threadVars, observed>>

\* The header split of _build_mirrored_request (lines 2625-2636): the message
\* is cut at the first "\r\n\r\n" and the part before it is split at "\r\n".
\* TRUE when that leaves every header line in the first element, FALSE when
\* each header line is an element of its own.
HeadersInFirstLine(request) == request.bare_lf

\* A rewriter that adds the marker and keeps every header of the observed
\* request
BuildMirroredRequest_KeepsHeaders(request, entry) ==
    [request EXCEPT !.empty = FALSE, !.marker = TRUE]

\* _build_mirrored_request(original_request, mirror_entry), lines 2617-2728:
\* the Authorization and Cookie headers and the marker of the built request.
\* The first element of the header list is copied as it is (line 2661).
BuildMirroredRequest(request, entry) ==
    LET auth_mode == entry.auth_mode
        session == entry.session
        split == ~HeadersInFirstLine(request)
        has_auth == split /\ request.authorization.id # ""
        has_cookie == split /\ request.cookie # <<>>
        own_bearer == BearerInScope(auth_mode) /\ session.bearer.id # ""
        own_cookies == CookiesInScope(auth_mode) /\ DOMAIN session.cookies # {}
        authorization ==
            IF own_bearer THEN session.bearer
            ELSE IF has_auth /\ auth_mode \notin {AUTH_NONE, AUTH_COOKIES}
                 THEN request.authorization
                 ELSE NoToken
        cookie ==
            IF own_cookies THEN CookiePairs(session.cookies)
            ELSE IF has_cookie /\ auth_mode \notin {AUTH_NONE, AUTH_BEARER}
                 THEN request.cookie
                 ELSE <<>>
    IN [request EXCEPT
          !.empty = FALSE, !.authorization = authorization, !.cookie = cookie,
          !.head_authorization = IF split THEN NoToken ELSE request.authorization,
          !.head_cookie = IF split THEN <<>> ELSE request.cookie,
          !.marker = TRUE]

\* for mirror_entry in mirrors (lines 2786-2811): read the mirror's domain,
\* build the request and start do_request
MirrorSend(d) ==
    LET me == dispatches[d] IN
    /\ me.pc = "loop"
    /\ me.idx <= Len(me.mirror_list)
    /\ dispatches' =
         [dispatches EXCEPT
            ![d].pc = "wait",
            ![d].mirror_domain = entries[me.mirror_list[me.idx]].domain,
            ![d].mirrored_req =
               BuildMirroredRequest(me.request, entries[me.mirror_list[me.idx]])]
    /\ UNCHANGED <<regVars, refreshVars, storeVars, active_mirror_threads,
                   orphans, log, settings, threadVars, observed>>

\* What _make_request_with_timeout and the checks after it (lines 2811-2825,
\* 2856) see: the wait ran out, the send raised, it returned None, or it
\* returned a message
MirrorResponses == {NoResponse, BadResponse, Resp(200, <<>>, B_A), Resp(200, <<>>, B_B)}

MirrorOutcomes ==
    { [kind |-> "timeout", response |-> NoResponse],
      [kind |-> "raise", response |-> NoResponse],
      [kind |-> "none", response |-> NoResponse] }
      \cup [kind : {"response"}, response : MirrorResponses]

\* A loop body that records whatever the send returned
MirrorFailed_Never(outcome) == FALSE

\* lines 2813-2825, 2827 raising: this mirror adds nothing to the result
MirrorFailed(outcome) ==
    \/ outcome.kind # "response"
    \/ outcome.response.empty
    \/ outcome.response.malformed

\* How a send ended, for the history dispatches[d].outcomes: the wait ran
\* out, the mirror failed in another way, or its response was recorded
OutcomeLabel(outcome) ==
    IF outcome.kind = "timeout" THEN "timeout"
    ELSE IF MirrorFailed(outcome) THEN "failed"
    ELSE "ok"

\* _mirror_request_v2, lines 2811-2859: the send of the current mirror ends
MirrorReceive(d, outcome) ==
    LET me == dispatches[d]
        mid == me.mirror_list[me.idx]
        response == outcome.response
        mirrored_req == me.mirrored_req
        failed == MirrorFailed(outcome)
        started == IF failed THEN <<>>
                   ELSE RefreshesStartedBy(entries[mid], mirrored_req, response,
                                           GetMirrorDomains)
        old == result_objs[me.result].responses
    IN
    /\ me.pc = "wait"
    /\ outcome.kind = "timeout" => orphans < MaxOrphans
    /\ orphans' = IF outcome.kind = "timeout" THEN orphans + 1 ELSE orphans
    /\ Cardinality(FreeRefreshers(refreshers)) >= Len(started)
    /\ refreshers' = StartRefreshThreads(refreshers, started)
    /\ IF failed
       THEN /\ dispatches' =
                 [dispatches EXCEPT
                    ![d].pc = "loop", ![d].idx = me.idx + 1,
                    ![d].outcomes = Append(me.outcomes, OutcomeLabel(outcome))]
            /\ UNCHANGED <<entries, result_objs>>
       ELSE /\ result_objs' =
                 [result_objs EXCEPT
                    ![me.result].responses =
                       [h \in DOMAIN old \cup {me.mirror_domain} |->
                          IF h = me.mirror_domain THEN ResponseRecord(response)
                          ELSE old[h]]]
            /\ entries' =
                 [entries EXCEPT
                    ![mid].session = CaptureFromResponse(entries[mid], mirrored_req, response)]
            /\ dispatches' =
                 [dispatches EXCEPT
                    ![d].pc = "loop", ![d].idx = me.idx + 1,
                    ![d].hashes = Append(me.hashes, Md5(response.body)),
                    ![d].outcomes = Append(me.outcomes, OutcomeLabel(outcome))]
    /\ UNCHANGED <<domains, pending_refresh, results, inserted, active_mirror_threads,
                   log, settings, threadVars, observed>>

\* A loop that may be left before the list is exhausted
LoopDone_Early(me) == TRUE

\* for mirror_entry in mirrors (line 2786): the list is exhausted
LoopDone(me) == me.idx > Len(me.mirror_list)

\* line 2862: result["match"] = len(set(hashes)) == 1
MirrorCompare(d) ==
    LET me == dispatches[d] IN
    /\ me.pc = "loop"
    /\ LoopDone(me)
    /\ result_objs' = [result_objs EXCEPT ![me.result].match = AllSame(me.hashes)]
    /\ dispatches' = [dispatches EXCEPT ![d].pc = "publish"]
    /\ UNCHANGED <<regVars, refreshVars, results, inserted, active_mirror_threads,
                   orphans, log, settings, threadVars, observed>>

\* line 2865: self._add_result(result)
MirrorPublish(d) ==
    LET me == dispatches[d] IN
    /\ me.pc = "publish"
    /\ results' = AddResult(results, settings.max_results, me.result)
    /\ inserted' = Append(inserted, me.result)
    /\ dispatches' = [dispatches EXCEPT ![d].pc = "finally"]
    /\ UNCHANGED <<regVars, refreshVars, result_objs, active_mirror_threads,
                   orphans, log, settings, threadVars, observed>>

\* do_mirror, lines 2044-2045 and 2144-2145: the finally clause
MirrorFinished(d) ==
    /\ dispatches[d].pc = "finally"
    /\ active_mirror_threads' = Released(active_mirror_threads)
    /\ dispatches' = [dispatches EXCEPT ![d] = IdleDispatch]
    /\ UNCHANGED <<regVars, refreshVars, storeVars, orphans, log, settings, threadVars, observed>>

\* An abandoned send whose end takes the newest result out of the store
LateCompletion_DropsResult ==
    /\ orphans > 0
    /\ orphans' = orphans - 1
    /\ results' = SubSeq(results, 1, Len(results) - 1)
    /\ UNCHANGED <<regVars, refreshVars, result_objs, inserted, active_mirror_threads,
                   dispatches, log, settings, threadVars, observed>>

\* do_request of _make_request_with_timeout (lines 3001-3007) ends after its
\* caller gave up: it writes only the holder dict nobody reads any more
LateCompletion ==
    /\ orphans > 0
    /\ orphans' = orphans - 1
    /\ UNCHANGED <<regVars, refreshVars, storeVars, active_mirror_threads,
                   dispatches, log, settings, threadVars, observed>>

\* ------------------------------------------------------------------------
\* Listeners
\* ------------------------------------------------------------------------

\* Burp tool flags (lines 53-57)
TOOL_PROXY == 4
TOOL_SCANNER == 16
TOOL_INTRUDER == 32
TOOL_REPEATER == 64
TOOL_EXTENDER == 1024

ToolFlags == {TOOL_PROXY, TOOL_SCANNER, TOOL_INTRUDER, TOOL_REPEATER, TOOL_EXTENDER}

\* A tool test that treats the proxy flag like the other tools
ShouldMirrorFromTool_Proxy(toolFlag) ==
    \/ toolFlag = TOOL_PROXY /\ settings.mirror_from_proxy
    \/ toolFlag = TOOL_REPEATER /\ settings.mirror_from_repeater
    \/ toolFlag = TOOL_SCANNER /\ settings.mirror_from_scanner
    \/ toolFlag = TOOL_INTRUDER /\ settings.mirror_from_intruder
    \/ toolFlag = TOOL_EXTENDER /\ settings.mirror_from_extender

\* _should_mirror_from_tool(toolFlag)
ShouldMirrorFromTool(toolFlag) ==
    IF toolFlag = TOOL_PROXY THEN FALSE
    ELSE \/ toolFlag = TOOL_REPEATER /\ settings.mirror_from_repeater
         \/ toolFlag = TOOL_SCANNER /\ settings.mirror_from_scanner
         \/ toolFlag = TOOL_INTRUDER /\ settings.mirror_from_intruder
         \/ toolFlag = TOOL_EXTENDER /\ settings.mirror_from_extender

\* "X-DomainMirror-Internal: true" in request_str (lines 2079, 2109)
IsOwnRequest(request) == ~request.empty /\ (request.marker \/ request.quotes_marker)

\* Thread(target=do_mirror).start() with the data captured for the thread
\* (lines 2031-2049, 2136-2149)
StartDispatch(request, response, host, mirrors) ==
    [dispatches EXCEPT
       ![MinOf(FreeDispatches)] =
          [IdleDispatch EXCEPT
             !.pc = "start", !.request = request, !.response = response,
             !.primary_host = host, !.mirror_list = mirrors]]

\* The model's cap on the dispatches of one run
CanRunDispatch ==
    /\ FreeDispatches # {}
    /\ Cardinality(AllocatedResults)
         + Cardinality({d \in DispatchSlots : dispatches[d].pc = "start"}) < MaxExchanges

\* A refusal that logs the warning and starts the thread all the same
SkipExchange_StartAnyway(request, response, host, mirrors) ==
    /\ CanRunDispatch
    /\ log' = log \cup {"skipped"}
    /\ dispatches' = StartDispatch(request, response, host, mirrors)
    /\ UNCHANGED active_mirror_threads

\* A listener found no permit (lines 2024-2026, 2132-2134): nothing is started
SkipExchange(request, response, host, mirrors) ==
    /\ log' = log \cup {"skipped"}
    /\ UNCHANGED <<active_mirror_threads, dispatches>>

\* The history of calls: nothing yet, or the last call.  seq alternates so
\* that a repeated call is still a change; result is what the call returned;
\* row is the selected table row of a console operation and primary_before
\* the rows (1-based) whose entry was primary when it was called.
NoCall ==
    [seq |-> 0, listener |-> "none", toolFlag |-> 0, is_request |-> FALSE,
     host |-> <<>>, request |-> NoRequest, response |-> NoResponse,
     result |-> 0, row |-> -1, primary_before |-> {}]

Call(listener, toolFlag, is_request, host, request, response) ==
    [seq |-> 1 - observed.seq, listener |-> listener, toolFlag |-> toolFlag,
     is_request |-> is_request, host |-> host, request |-> request,
     response |-> response, result |-> 0, row |-> -1, primary_before |-> {}]

\* processProxyMessage(messageIsRequest = False, message), lines 1958-2065
ProxyResponse(host, request, response) ==
    LET id == GetDomainEntry(host)
        entry == entries[id]
        mirrors == GetMirrorDomains
        dispatching == /\ settings.mirror_enabled /\ entry.is_primary
                       /\ settings.mirror_from_proxy
                       /\ mirrors # <<>>
        started == RefreshesStartedBy(entry, request, response, mirrors)
    IN
    IF id = 0 THEN UNCHANGED progVars
    ELSE IF dispatching /\ ~PermitAvailable
    THEN /\ SkipExchange(request, response, host, mirrors)
         /\ UNCHANGED <<regVars, refreshVars, storeVars, orphans, settings, threadVars>>
    ELSE /\ IF dispatching
            THEN /\ CanRunDispatch
                 /\ active_mirror_threads' = active_mirror_threads + 1
                 /\ dispatches' = StartDispatch(request, response, host, mirrors)
            ELSE UNCHANGED <<active_mirror_threads, dispatches>>
         /\ entries' =
              [entries EXCEPT ![id].session = CaptureFromResponse(entry, request, response)]
         /\ Cardinality(FreeRefreshers(refreshers)) >= Len(started)
         /\ refreshers' = StartRefreshThreads(refreshers, started)
         /\ UNCHANGED <<domains, pending_refresh, storeVars, orphans, log, settings, threadVars>>

\* processProxyMessage(messageIsRequest = True, message)
ProxyRequest(host, request) ==
    LET id == GetDomainEntry(host) IN
    IF id = 0 THEN UNCHANGED progVars
    ELSE /\ entries' =
              [entries EXCEPT ![id].session = CaptureFromRequest(entries[id], request)]
         /\ UNCHANGED <<domains, refreshVars, storeVars, dispatchVars, settings, threadVars>>

\* processHttpMessage(toolFlag, messageIsRequest = True, messageInfo)
HttpRequest(toolFlag, host, request) ==
    LET id == GetDomainEntry(host) IN
    IF IsOwnRequest(request) \/ id = 0 THEN UNCHANGED progVars
    ELSE /\ entries' =
              [entries EXCEPT ![id].session = CaptureFromRequest(entries[id], request)]
         /\ UNCHANGED <<domains, refreshVars, storeVars, dispatchVars, settings, threadVars>>

\* processHttpMessage(toolFlag, messageIsRequest = False, messageInfo), lines
\* 2084-2149.  analyzeResponse raising inside _capture_from_response ends the
\* handler.
HttpResponse(toolFlag, host, request, response) ==
    LET id == GetDomainEntry(host)
        entry == entries[id]
        raises == ~response.empty /\ entry.auth_mode # AUTH_NONE /\ response.malformed
        mirrors == GetMirrorDomains
        dispatching == /\ ShouldMirrorFromTool(toolFlag)
                       /\ settings.mirror_enabled /\ entry.is_primary
                       /\ mirrors # <<>>
                       /\ ~request.empty /\ ~response.empty
                       /\ ~IsOwnRequest(request)
        started == RefreshesStartedBy(entry, request, response, mirrors)
    IN
    IF id = 0 \/ raises THEN UNCHANGED progVars
    ELSE /\ entries' =
              [entries EXCEPT ![id].session = CaptureFromResponse(entry, request, response)]
         /\ Cardinality(FreeRefreshers(refreshers)) >= Len(started)
         /\ refreshers' = StartRefreshThreads(refreshers, started)
         /\ IF dispatching /\ ~PermitAvailable
            THEN SkipExchange(request, response, host, mirrors)
            ELSE IF dispatching
            THEN /\ CanRunDispatch
                 /\ active_mirror_threads' = active_mirror_threads + 1
                 /\ dispatches' = StartDispatch(request, response, host, mirrors)
                 /\ UNCHANGED log
            ELSE UNCHANGED <<active_mirror_threads, dispatches, log>>
         /\ UNCHANGED <<domains, pending_refresh, storeVars, orphans, settings, threadVars>>

\* ------------------------------------------------------------------------
\* Initial states
\* ------------------------------------------------------------------------

\* registerExtenderCallbacks (lines 98-126)
DefaultSettings ==
    [mirror_enabled |-> FALSE, auto_refresh_mirrors |-> TRUE,
     mirror_from_proxy |-> TRUE, mirror_from_repeater |-> FALSE,
     mirror_from_scanner |-> FALSE, mirror_from_intruder |-> FALSE,
     mirror_from_extender |-> FALSE,
     max_results |-> 1000, max_concurrent_mirrors |-> 10,
     request_timeout |-> 15, max_diff_lines |-> 500]

\* The extension as registerExtenderCallbacks leaves it
Init ==
    /\ entries = [id \in EntryIds |-> NoEntry]
    /\ domains = <<>>
    /\ pending_refresh = {}
    /\ refreshers = [t \in RefresherSlots |-> IdleRefresher]
    /\ result_objs = [id \in ResultIds |-> NoResult]
    /\ results = <<>>
    /\ inserted = <<>>
    /\ active_mirror_threads = 0
    /\ dispatches = [d \in DispatchSlots |-> IdleDispatch]
    /\ orphans = 0
    /\ log = {}
    /\ observed = NoCall
    /\ domains_lock = NoThread
    /\ refresh_all = IdleRefreshAll
    /\ capturers = [c \in CapturerSlots |-> IdleCapturer]
    /\ settings = DefaultSettings

\* The registry after _add_domain_entry for each configuration in turn
RECURSIVE RegistryOf(_, _, _)
RegistryOf(es, ds, configs) ==
    IF configs = <<>> THEN [entries |-> es, domains |-> ds]
    ELSE LET id == Len(ds) + 1 IN
         RegistryOf([es EXCEPT ![id] = NewEntry(NormalizeDomain(Head(configs).domain),
                                                ds = <<>>, Head(configs))],
                    Append(ds, id), Tail(configs))

Registry(configs) == RegistryOf([id \in EntryIds |-> NoEntry], <<>>, configs)

Auto(domain) == [domain |-> domain, auth_mode |-> AUTH_AUTO]

\* ------------------------------------------------------------------------
\* Domain Registry alone: add, remove and set-primary from the empty registry
\* ------------------------------------------------------------------------
AddStep ==
    /\ \E config \in AddConfigs : AddDomainEntry(config)
    /\ UNCHANGED <<refreshVars, storeVars, dispatchVars, settings, threadVars, observed>>

RemoveStep ==
    /\ \E row \in Rows : RemoveDomain(row)
    /\ UNCHANGED <<refreshVars, storeVars, dispatchVars, settings, threadVars, observed>>

SetPrimaryStep ==
    /\ \E row \in Rows : SetPrimary(row)
    /\ UNCHANGED <<refreshVars, storeVars, dispatchVars, settings, threadVars, observed>>

NextRegistry == AddStep \/ RemoveStep \/ SetPrimaryStep

SpecRegistry == Init /\ [][NextRegistry]_vars

PrimaryRows == {i \in 1..Len(domains) : entries[domains[i]].is_primary}

\* C1: after any sequence of add, remove and set-primary operations at most
\* one entry has is_primary = TRUE, and exactly one when the registry is
\* non-empty.
C1_OnePrimary ==
    /\ Cardinality(PrimaryRows) <= 1
    /\ Len(domains) > 0 => Cardinality(PrimaryRows) = 1

\* ------------------------------------------------------------------------
\* Refresh Scheduler: threads running _trigger_refresh against a registry
\* whose sessions were captured from traffic
\* ------------------------------------------------------------------------
SessionRequest == Req(P_d, NoToken, << <<"sid", "1">> >>, FALSE)
LoginResponse == Resp(200, << <<"sid", "2">> >>, B_J)

\* b.c (primary) and x.c: b.c's session captured from a login response,
\* x.c's from a request carrying a cookie
RefreshRegistry ==
    LET r == Registry(<<Auto(H_b), Auto(H_x)>>) IN
    [r.entries EXCEPT
       ![1].session = CaptureFromResponse(r.entries[1], SessionRequest, LoginResponse),
       ![2].session = CaptureFromRequest(r.entries[2], SessionRequest)]

InitRefresh ==
    /\ entries = RefreshRegistry
    /\ domains = <<1, 2>>
    /\ pending_refresh = {}
    /\ refreshers = [t \in RefresherSlots |-> IdleRefresher]
    /\ result_objs = [id \in ResultIds |-> NoResult]
    /\ results = <<>>
    /\ inserted = <<>>
    /\ active_mirror_threads = 0
    /\ dispatches = [d \in DispatchSlots |-> IdleDispatch]
    /\ orphans = 0
    /\ log = {}
    /\ observed = NoCall
    /\ domains_lock = NoThread
    /\ refresh_all = IdleRefreshAll
    /\ capturers = [c \in CapturerSlots |-> IdleCapturer]
    /\ settings = DefaultSettings

\* The domains a refresh is asked for: the registered ones and one that is not
RefreshDomains == {H_b, H_x, H_zb}

TriggerStartStep == \E domain \in RefreshDomains : TriggerStart(domain)
TriggerCheckStep == \E t \in RefresherSlots : TriggerCheck(t)
TriggerPrepareStep == \E t \in RefresherSlots : TriggerPrepare(t)
TriggerCompleteStep ==
    \E t \in RefresherSlots : \E outcome \in TransportOutcomes : TriggerComplete(t, outcome)

NextRefresh ==
    TriggerStartStep \/ TriggerCheckStep \/ TriggerPrepareStep \/ TriggerCompleteStep

SpecRefresh == InitRefresh /\ [][NextRefresh]_vars

\* The threads past the check of line 2420 and not yet in the finally clause
InFlight(domain) ==
    {t \in RefresherSlots :
       refreshers[t].domain = domain /\ refreshers[t].pc \in {"prepare", "sending"}}

Sending(domain) ==
    {t \in RefresherSlots : refreshers[t].domain = domain /\ refreshers[t].pc = "sending"}

C2_AtMostOneSend ==
    \A domain \in RefreshDomains :
      /\ Cardinality(Sending(domain)) <= 1
      /\ Cardinality(InFlight(domain)) <= 1

C2_InFlightCallReturns ==
    \A t \in RefresherSlots :
      (/\ refreshers[t].pc = "start"
       /\ InFlight(refreshers[t].domain) # {}
       /\ refreshers'[t] # refreshers[t])
        => refreshers'[t].pc = "deduped"

\* C2: for any set of concurrent trigger(domain) calls at most one
\* transport send per domain is in progress at any time, and a call that
\* finds the domain already in flight returns without sending.
C2_OneRefreshPerDomain == [](C2_AtMostOneSend) /\ [][C2_InFlightCallReturns]_vars

\* One thread is sending for a domain while another call for the same domain
\* has returned at the check
C2_Witness ==
    \E t1, t2 \in RefresherSlots :
      /\ refreshers[t1].pc = "sending"
      /\ refreshers[t2].pc = "deduped"
      /\ refreshers[t2].domain = refreshers[t1].domain

\* ------------------------------------------------------------------------
\* Result Store alone: _add_result called with result after result
\* ------------------------------------------------------------------------

\* The smallest capacity Save Settings accepts (lines 1739-1740)
MinMaxResults == 10

InitStore ==
    /\ entries = [id \in EntryIds |-> NoEntry]
    /\ domains = <<>>
    /\ pending_refresh = {}
    /\ refreshers = [t \in RefresherSlots |-> IdleRefresher]
    /\ result_objs = [id \in ResultIds |-> NoResult]
    /\ results = <<>>
    /\ inserted = <<>>
    /\ active_mirror_threads = 0
    /\ dispatches = [d \in DispatchSlots |-> IdleDispatch]
    /\ orphans = 0
    /\ log = {}
    /\ observed = NoCall
    /\ domains_lock = NoThread
    /\ refresh_all = IdleRefreshAll
    /\ capturers = [c \in CapturerSlots |-> IdleCapturer]
    /\ settings \in {[DefaultSettings EXCEPT !.max_results = n] :
                       n \in {MinMaxResults, MinMaxResults + 1}}

\* Results as _mirror_request_v2 assembles them (lines 2765-2776, 2835-2840, 2862)
SampleResults ==
    { [method |-> "GET", path |-> P_d, match |-> TRUE,
       responses |-> [h \in {H_b} |-> ResponseRecord(Resp(200, <<>>, B_A))]],
      [method |-> "GET", path |-> P_d, match |-> FALSE,
       responses |-> [h \in {H_b, H_x} |->
                        IF h = H_b THEN ResponseRecord(Resp(200, <<>>, B_A))
                        ELSE ResponseRecord(Resp(200, <<>>, B_B))]] }

\* _add_result(result) with a new result object
StoreInsert(result) ==
    LET id == MinOf(FreeResultIds) IN
    /\ FreeResultIds # {}
    /\ result_objs' = [result_objs EXCEPT ![id] = result]
    /\ results' = AddResult(results, settings.max_results, id)
    /\ inserted' = Append(inserted, id)
    /\ UNCHANGED <<regVars, refreshVars, dispatchVars, settings, threadVars, observed>>

NextStore == \E result \in SampleResults : StoreInsert(result)

SpecStore == InitStore /\ [][NextStore]_vars

\* The last n elements of a sequence
LastOf(seq, n) == SubSeq(seq, Len(seq) - n + 1, Len(seq))

C3_MostRecent ==
    /\ Len(results) <= settings.max_results
    /\ results = LastOf(inserted, IF Len(inserted) < settings.max_results
                                  THEN Len(inserted) ELSE settings.max_results)

C3_EvictsOldest ==
    (Len(results) = settings.max_results /\ inserted' # inserted)
      => results' = Append(Tail(results), inserted'[Len(inserted')])

\* C3: for any sequence of insertions at a fixed capacity N the store never
\* holds more than N results, it holds the most recently inserted results in
\* insertion order, and inserting into a store that holds N results removes
\* exactly the oldest one.
C3_BoundedFifo == [](C3_MostRecent) /\ [][C3_EvictsOldest]_vars

\* The store is full and has evicted at least one result
C3_Witness ==
    /\ Len(inserted) > settings.max_results
    /\ Len(results) = settings.max_results
    /\ results[1] # inserted[1]

\* ------------------------------------------------------------------------
\* Mirror Dispatcher: the listeners observe responses while do_mirror
\* threads run, with mirroring enabled for the proxy and for Repeater
\* ------------------------------------------------------------------------

\* Values of the "Max concurrent mirrors" field (lines 1748-1755)
OneAtATime == 1
TwoAtATime == 2

\* The configurations the dispatcher runs in: a registry, whose first entry
\* is the primary, and the limit on concurrent mirror threads
DispatchConfigs ==
    { [registry |-> Registry(<<Auto(H_b), Auto(H_x)>>), limit |-> OneAtATime],
      [registry |-> Registry(<<Auto(H_b), Auto(H_x)>>), limit |-> TwoAtATime],
      [registry |-> Registry(<<Auto(H_b), Auto(H_ab)>>), limit |-> TwoAtATime],
      [registry |-> Registry(<<Auto(H_b), Auto(H_x), Auto(H_zb)>>), limit |-> OneAtATime] }

DispatchSettings(limit) ==
    [DefaultSettings EXCEPT
       !.mirror_enabled = TRUE, !.mirror_from_repeater = TRUE,
       !.auto_refresh_mirrors = FALSE, !.max_concurrent_mirrors = limit]

InitDispatch ==
    /\ \E c \in DispatchConfigs :
         /\ entries = c.registry.entries
         /\ domains = c.registry.domains
         /\ settings = DispatchSettings(c.limit)
    /\ pending_refresh = {}
    /\ refreshers = [t \in RefresherSlots |-> IdleRefresher]
    /\ result_objs = [id \in ResultIds |-> NoResult]
    /\ results = <<>>
    /\ inserted = <<>>
    /\ active_mirror_threads = 0
    /\ dispatches = [d \in DispatchSlots |-> IdleDispatch]
    /\ orphans = 0
    /\ log = {}
    /\ observed = NoCall
    /\ domains_lock = NoThread
    /\ refresh_all = IdleRefreshAll
    /\ capturers = [c \in CapturerSlots |-> IdleCapturer]

\* What the listeners are shown: the host, the request and the response of
\* an exchange
Exchange(host, request, response) ==
    [host |-> host, request |-> request, response |-> response]

PlainRequest == Req(P_d, NoToken, <<>>, FALSE)
PlainResponse == Resp(200, <<>>, B_A)

ObservedExchanges ==
    { Exchange(H_b, PlainRequest, PlainResponse),
      Exchange(H_ab, PlainRequest, PlainResponse),
      Exchange(H_x, PlainRequest, PlainResponse),
      Exchange(H_b, Req(P_refresh, NoToken, <<>>, FALSE), PlainResponse),
      Exchange(H_b, Req(P_d, NoToken, <<>>, TRUE), PlainResponse),
      Exchange(H_b, PlainRequest, BadResponse),
      Exchange(H_b, PlainRequest, NoResponse) }

ObservedTools == {TOOL_PROXY, TOOL_REPEATER, TOOL_SCANNER}

ProxyResponseStep ==
    /\ \E x \in ObservedExchanges : ProxyResponse(x.host, x.request, x.response)
    /\ UNCHANGED observed

HttpResponseStep ==
    /\ \E toolFlag \in ObservedTools : \E x \in ObservedExchanges :
         HttpResponse(toolFlag, x.host, x.request, x.response)
    /\ UNCHANGED observed

MirrorBeginStep == \E d \in DispatchSlots : MirrorBegin(d)
MirrorSendStep == \E d \in DispatchSlots : MirrorSend(d)
MirrorReceiveStep ==
    \E d \in DispatchSlots : \E outcome \in MirrorOutcomes : MirrorReceive(d, outcome)
MirrorCompareStep == \E d \in DispatchSlots : MirrorCompare(d)
MirrorPublishStep == \E d \in DispatchSlots : MirrorPublish(d)
MirrorFinishedStep == \E d \in DispatchSlots : MirrorFinished(d)

NextDispatch ==
    \/ ProxyResponseStep \/ HttpResponseStep
    \/ MirrorBeginStep \/ MirrorSendStep \/ MirrorReceiveStep
    \/ MirrorCompareStep \/ MirrorPublishStep \/ MirrorFinishedStep
    \/ LateCompletion

SpecDispatch == InitDispatch /\ [][NextDispatch]_vars

\* C4: in every reachable state, under any interleaving of proxy-listener
\* observations, HTTP-listener observations and dispatch completions, the
\* active mirror thread count is at least 0 and at most the configured
\* maximum of concurrent mirrors.
C4_PermitsWithinLimit ==
    /\ active_mirror_threads >= 0
    /\ active_mirror_threads <= settings.max_concurrent_mirrors

\* Every permit is held and a further exchange has been refused
C4_Witness ==
    /\ active_mirror_threads = settings.max_concurrent_mirrors
    /\ settings.max_concurrent_mirrors = 2
    /\ "skipped" \in log

\* The dispatch slots a step starts a do_mirror thread in
StartedNow == {d \in DispatchSlots : dispatches[d].pc = "idle" /\ dispatches'[d].pc # "idle"}

\* A listener refuses an exchange in this step
RefusedNow == "skipped" \notin log /\ "skipped" \in log'

\* C5 as stated: a permit is acquired per mirror domain, so an exchange that
\* meets a refusal is still dispatched with the mirrors that obtained a permit
\* and still produces a MirrorResult.
C5_RefusalSkipsOneMirror == [][RefusedNow => StartedNow # {}]_vars

C5_NothingStartedWithoutPermit == ~PermitAvailable => StartedNow = {}

C5_RefusalSkipsExchange ==
    RefusedNow => /\ ~PermitAvailable
                  /\ UNCHANGED <<active_mirror_threads, dispatches, storeVars, orphans>>

\* C5 (amended): the permit is acquired once per exchange, before any mirror
\* is sent: when none is available the whole exchange is skipped, no mirror of
\* it is sent and no MirrorResult is produced for it, and nothing about it is
\* kept for a later retry.
C5_PermitPerExchange ==
    [][C5_NothingStartedWithoutPermit /\ C5_RefusalSkipsExchange]_vars

\* An exchange was refused while every permit was held
C5_Witness ==
    /\ "skipped" \in log
    /\ ~PermitAvailable
    /\ \A d \in DispatchSlots : dispatches[d].pc \in {"idle", "wait"}

\* The do_mirror threads that have not left their finally clause
Running == {d \in DispatchSlots : dispatches[d].pc # "idle"}

C6_PermitPerRunningDispatch == active_mirror_threads = Cardinality(Running)

C6_LateCompletionKeepsCount == orphans' < orphans => UNCHANGED active_mirror_threads

\* C6: every permit acquired for a dispatch is released exactly once when the
\* dispatch ends, on every path, so the count is the number of dispatches
\* still running and is 0 once all have ended; a transport call completing
\* after its caller timed out does not release a permit again.
C6_ReleasedExactlyOnce ==
    [](C6_PermitPerRunningDispatch) /\ [][C6_LateCompletionKeepsCount]_vars

\* All dispatches have ended, one of them after a mirror timed out, and the
\* abandoned transport call is still running
C6_Witness ==
    /\ Running = {}
    /\ active_mirror_threads = 0
    /\ inserted # <<>>
    /\ orphans > 0

\* The elements of a sequence
Range(seq) == {seq[i] : i \in 1..Len(seq)}

\* The do_mirror threads whose _mirror_request_v2 has returned from _add_result
Published == {d \in DispatchSlots : dispatches[d].pc = "finally" /\ dispatches[d].result # 0}

\* The mirrors of a dispatch whose response was recorded
Succeeded(d) == {i \in 1..Len(dispatches[d].outcomes) : dispatches[d].outcomes[i] = "ok"}

DomainOfMirror(d, i) == entries[dispatches[d].mirror_list[i]].domain

ResponsesOf(d) == result_objs[dispatches[d].result].responses

C7_FailedMirrorAddsNothing ==
    \A d \in DispatchSlots :
      (/\ dispatches[d].pc = "wait" /\ dispatches'[d].pc = "loop"
       /\ dispatches'[d].outcomes[Len(dispatches'[d].outcomes)] # "ok")
        => /\ result_objs' = result_objs
           /\ dispatches'[d].hashes = dispatches[d].hashes
           /\ dispatches'[d].idx = dispatches[d].idx + 1

C7_SucceededMirrorsPresent ==
    \A d \in Published :
      /\ Len(dispatches[d].outcomes) = Len(dispatches[d].mirror_list)
      /\ DOMAIN ResponsesOf(d) =
           {dispatches[d].primary_host} \cup {DomainOfMirror(d, i) : i \in Succeeded(d)}
      /\ dispatches[d].result \in Range(results)

OnlyMirrorTimedOut ==
    {d \in Published : dispatches[d].outcomes = <<"timeout">>
                        /\ Len(dispatches[d].mirror_list) = 1}

\* C8: when the only mirror of a dispatch times out, the MirrorResult
\* appended to the store has a responses map holding only the record of the
\* primary exchange, under the observed host, and has match = TRUE.
C8_TimeoutLeavesPrimaryOnly ==
    \A d \in OnlyMirrorTimedOut :
      /\ dispatches[d].result \in Range(results)
      /\ DOMAIN ResponsesOf(d) = {dispatches[d].primary_host}
      /\ ResponsesOf(d)[dispatches[d].primary_host] = ResponseRecord(dispatches[d].response)
      /\ result_objs[dispatches[d].result].match = TRUE

C8_Witness == OnlyMirrorTimedOut # {}

\* The hashes of the records in a result's responses map
HashesPresent(id) ==
    {result_objs[id].responses[h].hash : h \in DOMAIN result_objs[id].responses}

\* C9: for every MirrorResult appended to the store, match is TRUE exactly
\* when all ResponseRecords present in its responses map have the same hash.
C9_MatchIffHashesEqual ==
    \A id \in Range(results) :
      result_objs[id].match <=> Cardinality(HashesPresent(id)) = 1

C10_PublishedWhenComplete ==
    \A d \in DispatchSlots :
      (dispatches[d].result # 0 /\ dispatches[d].result \in Range(results))
        => /\ dispatches[d].pc = "finally"
           /\ Len(dispatches[d].outcomes) = Len(dispatches[d].mirror_list)

C10_PublishedIsFrozen ==
    \A id \in Range(results) : result_objs'[id] = result_objs[id]

\* C10: a MirrorResult is in the store only after every mirror of its
\* dispatch has completed, failed or timed out and match has been computed,
\* and once appended neither its responses map nor its match value changes,
\* whatever other dispatches and late transport completions do.
C10_PublishedOnceComplete ==
    [](C10_PublishedWhenComplete) /\ [][C10_PublishedIsFrozen]_vars

\* A result is in the store while another dispatch waits for a mirror and an
\* abandoned transport call is still running
C10_Witness ==
    /\ results # <<>>
    /\ orphans > 0
    /\ \E d \in DispatchSlots : dispatches[d].pc = "wait"

\* C11: every request the rewriter builds carries the marker header, and an
\* observed exchange whose request carries the marker never starts a mirror
\* dispatch, at either listener.
C11_MarkedNeverDispatched ==
    \A d \in DispatchSlots :
      /\ dispatches[d].pc = "wait" => dispatches[d].mirrored_req.marker
      /\ dispatches[d].pc # "idle" => ~dispatches[d].request.marker

\* ------------------------------------------------------------------------
\* Specification: the listeners' session capture on one registered domain
\* ------------------------------------------------------------------------

Tabc == [id |-> "abc", exp |-> None]

\* What the operator enters in the Add Domain and Edit Domain dialogs
ListenConfigs == [domain : {H_b}, auth_mode : AUTH_MODES]

BearerRequest == Req(P_d, Tabc, <<>>, FALSE)

ListenRequests ==
    { BearerRequest,
      SessionRequest,
      Quoting(SessionRequest),
      Req(P_d, NoToken, <<>>, TRUE) }

ListenResponses == {LoginResponse}

ListenHosts == {H_b, H_x}

ListenTools == {TOOL_PROXY, TOOL_REPEATER}

AddListenStep ==
    /\ \E config \in ListenConfigs : AddDomainEntry(config)
    /\ UNCHANGED <<refreshVars, storeVars, dispatchVars, settings, threadVars, observed>>

EditListenStep ==
    /\ \E row \in Rows : \E config \in ListenConfigs : EditDomain(row, config)
    /\ UNCHANGED <<refreshVars, storeVars, dispatchVars, settings, threadVars, observed>>

ProxyRequestCall ==
    \E host \in ListenHosts : \E request \in ListenRequests :
      /\ ProxyRequest(host, request)
      /\ observed' = Call("proxy", TOOL_PROXY, TRUE, host, request, NoResponse)

HttpRequestCall ==
    \E toolFlag \in ListenTools : \E host \in ListenHosts :
      \E request \in ListenRequests :
        /\ HttpRequest(toolFlag, host, request)
        /\ observed' = Call("http", toolFlag, TRUE, host, request, NoResponse)

ProxyResponseCall ==
    \E host \in ListenHosts : \E request \in ListenRequests :
      \E response \in ListenResponses :
        /\ ProxyResponse(host, request, response)
        /\ observed' = Call("proxy", TOOL_PROXY, FALSE, host, request, response)

HttpResponseCall ==
    \E toolFlag \in ListenTools : \E host \in ListenHosts :
      \E request \in ListenRequests : \E response \in ListenResponses :
        /\ HttpResponse(toolFlag, host, request, response)
        /\ observed' = Call("http", toolFlag, FALSE, host, request, response)

NextListen ==
    \/ AddListenStep
    \/ EditListenStep
    \/ ProxyRequestCall
    \/ HttpRequestCall
    \/ ProxyResponseCall
    \/ HttpResponseCall

SpecListen == Init /\ [][NextListen]_vars

\* The listener call that has just been made
Called == observed'.seq # observed.seq

\* C12: a request is left out of session capture exactly when it has the
\* marker header line; a request that only quotes the marker text in its body
\* or in another header's value is captured like any other.
C12_OnlyMarkerLineExcluded ==
    [][(/\ Called
        /\ observed'.listener = "http"
        /\ observed'.is_request
        /\ GetDomainEntry(observed'.host) # 0)
       => LET id == GetDomainEntry(observed'.host) IN
          entries'[id].session =
            IF observed'.request.marker THEN entries[id].session
            ELSE CaptureFromRequest(entries[id], observed'.request)]_vars

\* The listener call just made ran _capture_from_request on a registered host
CapturedRequest ==
    /\ Called
    /\ observed'.is_request
    /\ GetDomainEntry(observed'.host) # 0
    /\ ~(observed'.listener = "http" /\ IsOwnRequest(observed'.request))

\* C18: capturing a request with Authorization: Bearer abc sets the entry's
\* bearer to abc when its mode is Auto Detect, Bearer Only or Cookies + Bearer,
\* and leaves the bearer as it was in the modes Cookies Only, None and Custom
\* Header.
C18_BearerCaptureByMode ==
    [][(CapturedRequest /\ observed'.request.authorization = Tabc)
       => LET id == GetDomainEntry(observed'.host) IN
          IF entries[id].auth_mode \in {AUTH_AUTO, AUTH_BEARER, AUTH_BOTH}
          THEN entries'[id].session.bearer = Tabc
          ELSE entries'[id].session.bearer = entries[id].session.bearer]_vars

\* A Cookies Only entry whose bearer is still empty after the request with
\* Bearer abc was captured for it
C18_Witness ==
    /\ observed.is_request
    /\ observed.request = BearerRequest
    /\ GetDomainEntry(observed.host) # 0
    /\ entries[GetDomainEntry(observed.host)].auth_mode = AUTH_COOKIES
    /\ entries[GetDomainEntry(observed.host)].session.bearer = NoToken
    /\ DOMAIN entries[GetDomainEntry(observed.host)].session.cookies # {}

\* The status that _update_session_status would store for the entry
DerivedStatus(entry) == UpdateSessionStatus(entry.session, entry.auth_mode).status

\* C20: every registered entry's stored status is the status derived from its
\* auth mode, cookies and bearer.
C20_StatusDerived ==
    \A i \in 1..Len(domains) :
      entries[domains[i]].session.status = DerivedStatus(entries[domains[i]])

\* ------------------------------------------------------------------------
\* Specification: the status recompute applied to every kind of session
\* ------------------------------------------------------------------------

StatusValues == {"waiting", "capturing", "ready"}

SampleCookies == {<<>>, [n \in {"sid"} |-> "1"], [n \in {"sid", "lang"} |-> "2"]}

SampleBearers == {NoToken, T1, Tabc}

\* One registered entry with any auth mode, cookies, bearer and stored status
InitStatus ==
    /\ \E auth_mode \in AUTH_MODES : \E cookies \in SampleCookies :
         \E bearer \in SampleBearers : \E status \in StatusValues :
           entries =
             [id \in EntryIds |->
                IF id = 1
                THEN [NewEntry(H_b, TRUE, [auth_mode |-> auth_mode]) EXCEPT
                        !.session.cookies = cookies, !.session.bearer = bearer,
                        !.session.status = status]
                ELSE NoEntry]
    /\ domains = <<1>>
    /\ pending_refresh = {}
    /\ refreshers = [t \in RefresherSlots |-> IdleRefresher]
    /\ result_objs = [id \in ResultIds |-> NoResult]
    /\ results = <<>>
    /\ inserted = <<>>
    /\ active_mirror_threads = 0
    /\ dispatches = [d \in DispatchSlots |-> IdleDispatch]
    /\ orphans = 0
    /\ log = {}
    /\ observed = NoCall
    /\ domains_lock = NoThread
    /\ refresh_all = IdleRefreshAll
    /\ capturers = [c \in CapturerSlots |-> IdleCapturer]
    /\ settings = DefaultSettings

\* self._update_session_status(session, auth_mode) on the entry
RecomputeStatus ==
    /\ entries' =
         [entries EXCEPT
            ![1].session = UpdateSessionStatus(entries[1].session, entries[1].auth_mode)]
    /\ observed' = [NoCall EXCEPT !.seq = 1 - observed.seq,
                                  !.listener = "_update_session_status"]
    /\ UNCHANGED <<domains, refreshVars, storeVars, dispatchVars, settings, threadVars>>

SpecStatus == InitStatus /\ [][RecomputeStatus]_vars

\* The status table of the specification
StatusTable(auth_mode, has_cookies, has_bearer) ==
    CASE auth_mode = AUTH_AUTO ->
           IF has_bearer \/ has_cookies THEN "ready" ELSE "waiting"
      [] auth_mode = AUTH_COOKIES ->
           IF has_cookies THEN "ready"
           ELSE IF has_bearer THEN "capturing" ELSE "waiting"
      [] auth_mode = AUTH_BEARER ->
           IF has_bearer THEN "ready"
           ELSE IF has_cookies THEN "capturing" ELSE "waiting"
      [] auth_mode = AUTH_BOTH ->
           IF has_cookies /\ has_bearer THEN "ready"
           ELSE IF has_cookies # has_bearer THEN "capturing" ELSE "waiting"
      [] auth_mode \in {AUTH_CUSTOM, AUTH_NONE} -> "ready"

\* C19: the status recompute stores, for every auth mode and every presence
\* of cookies and bearer, the value of the status table, and changes nothing
\* else of the session.
C19_RecomputeIsTable ==
    [][Called =>
         entries'[1].session =
           [entries[1].session EXCEPT
              !.status = StatusTable(entries[1].auth_mode,
                                     DOMAIN entries[1].session.cookies # {},
                                     entries[1].session.bearer.id # "")]]_vars

\* A Cookies + Bearer entry that has cookies and no bearer, after the recompute
C19_Witness ==
    /\ observed.listener = "_update_session_status"
    /\ entries[1].auth_mode = AUTH_BOTH
    /\ DOMAIN entries[1].session.cookies # {}
    /\ entries[1].session.bearer = NoToken
    /\ entries[1].session.status = "capturing"

\* ------------------------------------------------------------------------
\* Specification: the rewriter applied to every kind of request and target
\* ------------------------------------------------------------------------

\* The observed requests: with and without Authorization: Bearer abc, with
\* and without Cookie: sid=1, in either framing
RewriteRequests ==
    LET framed == {Req(P_d, authorization, cookie, FALSE) :
                     authorization \in {NoToken, Tabc},
                     cookie \in {<<>>, << <<"sid", "1">> >>}}
    IN framed \cup {BareLf(request) : request \in framed}

RewriteCookies == {<<>>, [n \in {"sid"} |-> "2"]}

RewriteBearers == {NoToken, T1}

\* b.c (primary) and the mirror x.c with any auth mode and session; a
\* do_mirror thread has just been started for an exchange on b.c
InitRewrite ==
    /\ \E auth_mode \in AUTH_MODES : \E cookies \in RewriteCookies :
         \E bearer \in RewriteBearers : \E request \in RewriteRequests :
           LET r == Registry(<<Auto(H_b), [domain |-> H_x, auth_mode |-> auth_mode]>>)
               session == [EmptySession EXCEPT !.cookies = cookies, !.bearer = bearer]
           IN
           /\ entries =
                [r.entries EXCEPT
                   ![2].session = [session EXCEPT
                                     !.status = UpdateSessionStatus(session, auth_mode).status]]
           /\ domains = r.domains
           /\ dispatches =
                [d \in DispatchSlots |->
                   IF d = 1
                   THEN [IdleDispatch EXCEPT
                           !.pc = "start", !.request = request,
                           !.response = PlainResponse, !.primary_host = H_b,
                           !.mirror_list = <<2>>]
                   ELSE IdleDispatch]
    /\ settings = DispatchSettings(OneAtATime)
    /\ active_mirror_threads = 1
    /\ pending_refresh = {}
    /\ refreshers = [t \in RefresherSlots |-> IdleRefresher]
    /\ result_objs = [id \in ResultIds |-> NoResult]
    /\ results = <<>>
    /\ inserted = <<>>
    /\ orphans = 0
    /\ log = {}
    /\ observed = NoCall
    /\ domains_lock = NoThread
    /\ refresh_all = IdleRefreshAll
    /\ capturers = [c \in CapturerSlots |-> IdleCapturer]

NextRewrite ==
    \/ MirrorBeginStep
    \/ MirrorSendStep

SpecRewrite == InitRewrite /\ [][NextRewrite]_vars

\* The dispatches whose request for the mirror has just been built
Built == {d \in DispatchSlots : dispatches[d].pc = "wait"}

\* The entry the request of dispatch d was built for
TargetOf(d) == entries[dispatches[d].mirror_list[dispatches[d].idx]]

\* The Authorization and the Cookie headers anywhere in a built request
AuthorizationHeaders(request) ==
    {request.authorization, request.head_authorization} \ {NoToken}

CookieHeaders(request) == {request.cookie, request.head_cookie} \ {<<>>}

\* C14: a request built for a target whose auth mode is None has no
\* Authorization header and no Cookie header, whatever the observed request.
C14_NoneStripsCredentials ==
    \A d \in Built :
      TargetOf(d).auth_mode = AUTH_NONE =>
        /\ AuthorizationHeaders(dispatches[d].mirrored_req) = {}
        /\ CookieHeaders(dispatches[d].mirrored_req) = {}

\* C15: the built request's Authorization is the target's bearer when the
\* target's mode has bearer in scope and the target has one, is absent in the
\* modes Cookies Only, None and Custom Header, and is the observed request's
\* own Authorization when bearer is in scope and the target has none.
C15_AuthorizationByMode ==
    \A d \in Built :
      LET target == TargetOf(d)
          in_scope == target.auth_mode \in {AUTH_AUTO, AUTH_BEARER, AUTH_BOTH}
          built == AuthorizationHeaders(dispatches[d].mirrored_req)
          original == {dispatches[d].request.authorization} \ {NoToken}
      IN IF ~in_scope THEN built = {}
         ELSE IF target.session.bearer # NoToken THEN built = {target.session.bearer}
         ELSE built = original

\* C16: the built request's Cookie is the target's cookie set when the
\* target's mode has cookies in scope and the target has cookies, is absent in
\* the modes Bearer Only, None and Custom Header, and is the observed
\* request's own Cookie when cookies are in scope and the target has none.
C16_CookieByMode ==
    \A d \in Built :
      LET target == TargetOf(d)
          in_scope == target.auth_mode \in {AUTH_AUTO, AUTH_COOKIES, AUTH_BOTH}
          built == CookieHeaders(dispatches[d].mirrored_req)
          original == {dispatches[d].request.cookie} \ {<<>>}
      IN IF ~in_scope THEN built = {}
         ELSE IF DOMAIN target.session.cookies # {}
              THEN built = {CookiePairs(target.session.cookies)}
         ELSE built = original

\* ------------------------------------------------------------------------
\* Specification: mirroring and refresh propagation together, as installed
\* (auto_refresh_mirrors on), with refresh threads started by captures only
\* ------------------------------------------------------------------------

P_Refresh_upper == <<"/", "R", "e", "f", "r", "e", "s", "h">>

PropagateExchanges ==
    { Exchange(H_b, PlainRequest, PlainResponse),
      Exchange(H_b, Req(P_refresh, NoToken, <<>>, FALSE), PlainResponse),
      Exchange(H_b, Req(P_Refresh_upper, NoToken, <<>>, FALSE), PlainResponse) }

PropagateSettings ==
    [DefaultSettings EXCEPT
       !.mirror_enabled = TRUE, !.mirror_from_repeater = TRUE,
       !.max_concurrent_mirrors = OneAtATime]

InitPropagate ==
    /\ entries = RefreshRegistry
    /\ domains = <<1, 2>>
    /\ settings = PropagateSettings
    /\ pending_refresh = {}
    /\ refreshers = [t \in RefresherSlots |-> IdleRefresher]
    /\ result_objs = [id \in ResultIds |-> NoResult]
    /\ results = <<>>
    /\ inserted = <<>>
    /\ active_mirror_threads = 0
    /\ dispatches = [d \in DispatchSlots |-> IdleDispatch]
    /\ orphans = 0
    /\ log = {}
    /\ observed = NoCall
    /\ domains_lock = NoThread
    /\ refresh_all = IdleRefreshAll
    /\ capturers = [c \in CapturerSlots |-> IdleCapturer]

ProxyExchangeStep ==
    /\ \E x \in PropagateExchanges : ProxyResponse(x.host, x.request, x.response)
    /\ UNCHANGED observed

RepeaterExchangeStep ==
    /\ \E x \in PropagateExchanges :
         HttpResponse(TOOL_REPEATER, x.host, x.request, x.response)
    /\ UNCHANGED observed

NextPropagate ==
    \/ ProxyExchangeStep \/ RepeaterExchangeStep
    \/ MirrorBeginStep \/ MirrorSendStep \/ MirrorReceiveStep
    \/ MirrorCompareStep \/ MirrorPublishStep \/ MirrorFinishedStep
    \/ LateCompletion
    \/ TriggerCheckStep \/ TriggerPrepareStep \/ TriggerCompleteStep

SpecPropagate == InitPropagate /\ [][NextPropagate]_vars

\* The request target names a refresh endpoint: every configured pattern
\* contains "/refresh"
OnRefreshEndpoint(target) == Contains(Lower(UrlPath(target)), P_refresh)

\* C13: a primary exchange whose request path matches a refresh pattern never
\* makes the mirror dispatcher build or send a request for a mirror and never
\* produces a MirrorResult; what it may start is the refresh of each mirror.
C13_RefreshNeverMirrored ==
    /\ \A d \in DispatchSlots :
         dispatches[d].pc \notin {"idle", "start", "finally"}
           => ~OnRefreshEndpoint(dispatches[d].request.target)
    /\ \A id \in AllocatedResults : ~OnRefreshEndpoint(result_objs[id].path)

\* A do_mirror thread that returned at the refresh test, with nothing stored
C13_Witness ==
    \E d \in DispatchSlots :
      /\ dispatches[d].pc = "finally"
      /\ OnRefreshEndpoint(dispatches[d].request.target)
      /\ dispatches[d].result = 0
      /\ AllocatedResults = {}

\* A primary exchange on a refresh endpoint causes no transport send to a
\* mirror at all: no mirrored request and no refresh request either.  Every
\* refresh thread of this specification was started by the capture of such
\* an exchange.
C13_NoSendToAnyMirror ==
    /\ C13_RefreshNeverMirrored
    /\ \A t \in RefresherSlots :
         refreshers[t].pc = "sending"
           => \A i \in 1..Len(GetMirrorDomains) :
                entries[GetMirrorDomains[i]].domain # refreshers[t].domain

\* ------------------------------------------------------------------------
\* Specification: primary a.com and mirror b.com, a response on a.com that
\* sets sid=123, then GET /dashboard on a.com
\* ------------------------------------------------------------------------

H_acom == <<"a", ".", "c", "o", "m">>
H_bcom == <<"b", ".", "c", "o", "m">>
P_dashboard == <<"/", "d", "a", "s", "h", "b", "o", "a", "r", "d">>
Sid123 == << <<"sid", "123">> >>
Sid999 == << <<"sid", "999">> >>

\* The exchange on a.com whose response has Set-Cookie: sid=123
SetCookieExchange == Exchange(H_acom, PlainRequest, Resp(200, Sid123, B_A))

\* GET /dashboard on a.com, as a browser holding the cookie sends it and as a
\* client without cookies sends it
DashboardExchanges ==
    { Exchange(H_acom, Req(P_dashboard, NoToken, Sid123, FALSE), PlainResponse),
      Exchange(H_acom, Req(P_dashboard, NoToken, <<>>, FALSE), PlainResponse) }

\* What the send to b.com returns: nothing in time, a.com's body, another
\* body, another body with a cookie of b.com's own
ScenarioOutcomes ==
    { [kind |-> "timeout", response |-> NoResponse],
      [kind |-> "response", response |-> Resp(200, <<>>, B_A)],
      [kind |-> "response", response |-> Resp(200, <<>>, B_B)],
      [kind |-> "response", response |-> Resp(200, Sid999, B_B)] }

InitScenario ==
    /\ LET r == Registry(<<Auto(H_acom), Auto(H_bcom)>>) IN
         /\ entries = r.entries
         /\ domains = r.domains
    /\ settings = [DefaultSettings EXCEPT !.mirror_enabled = TRUE]
    /\ pending_refresh = {}
    /\ refreshers = [t \in RefresherSlots |-> IdleRefresher]
    /\ result_objs = [id \in ResultIds |-> NoResult]
    /\ results = <<>>
    /\ inserted = <<>>
    /\ active_mirror_threads = 0
    /\ dispatches = [d \in DispatchSlots |-> IdleDispatch]
    /\ orphans = 0
    /\ log = {}
    /\ observed = NoCall
    /\ domains_lock = NoThread
    /\ refresh_all = IdleRefreshAll
    /\ capturers = [c \in CapturerSlots |-> IdleCapturer]

\* a.com's session holds the cookie sid=123
PrimaryHasSid123 ==
    /\ "sid" \in DOMAIN entries[1].session.cookies
    /\ entries[1].session.cookies["sid"] = "123"

SetCookieStep ==
    /\ ProxyResponse(SetCookieExchange.host, SetCookieExchange.request,
                     SetCookieExchange.response)
    /\ UNCHANGED observed

\* The later exchange: presented once the Set-Cookie response has been seen
DashboardStep ==
    /\ PrimaryHasSid123
    /\ \E x \in DashboardExchanges : ProxyResponse(x.host, x.request, x.response)
    /\ UNCHANGED observed

ScenarioReceiveStep ==
    \E d \in DispatchSlots : \E outcome \in ScenarioOutcomes : MirrorReceive(d, outcome)

NextScenario ==
    \/ SetCookieStep \/ DashboardStep
    \/ MirrorBeginStep \/ MirrorSendStep \/ ScenarioReceiveStep
    \/ MirrorCompareStep \/ MirrorPublishStep \/ MirrorFinishedStep
    \/ LateCompletion

\* A started do_mirror thread runs: it parses the exchange and enters its loop
ScenarioFairness ==
    \A d \in DispatchSlots : WF_vars(MirrorBegin(d)) /\ WF_vars(MirrorSend(d))

SpecScenario == InitScenario /\ [][NextScenario]_vars /\ ScenarioFairness

\* The do_mirror threads working on GET /dashboard
OnDashboard(d) == dispatches[d].request.target = P_dashboard

\* The request for b.com is built in this step
SendsDashboard(d) ==
    /\ OnDashboard(d)
    /\ dispatches[d].pc = "loop"
    /\ dispatches'[d].pc = "wait"

\* A dispatch of GET /dashboard, once started, sends to b.com
C17_DashboardIsSent ==
    \A d \in DispatchSlots :
      (dispatches[d].pc = "start" /\ OnDashboard(d))
        ~> (dispatches[d].pc = "wait" /\ OnDashboard(d)
              /\ dispatches[d].mirror_domain = H_bcom)

\* A published result of GET /dashboard for which b.com answered has both
\* domains, and match = false when the bodies differ
C17_DifferingBodiesMismatch ==
    \A d \in Published :
      (OnDashboard(d) /\ dispatches[d].outcomes = <<"ok">>)
        => /\ dispatches[d].result \in Range(results)
           /\ DOMAIN ResponsesOf(d) = {H_acom, H_bcom}
           /\ (ResponsesOf(d)[H_bcom].body # ResponsesOf(d)[H_acom].body
                 => result_objs[dispatches[d].result].match = FALSE)

H_example == <<"e", "x", "a", "m", "p", "l", "e", ".", "c", "o", "m">>
H_api_example == <<"a", "p", "i", ".">> \o H_example
H_notexample == <<"n", "o", "t">> \o H_example
H_com == <<"c", "o", "m">>

LookupDomains == {H_example, H_api_example, H_com}

LookupHosts ==
    {H_example, H_api_example, H_notexample, H_com, <<"A", "P", "I", ".">> \o H_example}

\* The registries of up to MaxEntries entries over LookupDomains, in any
\* order (an edit can store a domain a second time)
LookupRegistries ==
    {Registry(<<>>)}
      \cup {Registry(<<Auto(a)>>) : a \in LookupDomains}
      \cup {Registry(<<Auto(a), Auto(b)>>) : a \in LookupDomains, b \in LookupDomains}
      \cup {Registry(<<Auto(a), Auto(b), Auto(c)>>) :
               a \in LookupDomains, b \in LookupDomains, c \in LookupDomains}

InitLookup ==
    /\ \E r \in LookupRegistries : entries = r.entries /\ domains = r.domains
    /\ settings = DefaultSettings
    /\ pending_refresh = {}
    /\ refreshers = [t \in RefresherSlots |-> IdleRefresher]
    /\ result_objs = [id \in ResultIds |-> NoResult]
    /\ results = <<>>
    /\ inserted = <<>>
    /\ active_mirror_threads = 0
    /\ dispatches = [d \in DispatchSlots |-> IdleDispatch]
    /\ orphans = 0
    /\ log = {}
    /\ observed = NoCall
    /\ domains_lock = NoThread
    /\ refresh_all = IdleRefreshAll
    /\ capturers = [c \in CapturerSlots |-> IdleCapturer]

\* self._get_domain_entry(host)
LookupStep ==
    /\ \E host \in LookupHosts :
         observed' = [NoCall EXCEPT !.seq = 1 - observed.seq,
                                    !.listener = "_get_domain_entry",
                                    !.host = host,
                                    !.result = GetDomainEntry(host)]
    /\ UNCHANGED progVars

SpecLookup == InitLookup /\ [][LookupStep]_vars

\* The entry at row i (1-based) is the host itself or a parent domain of it
RowMatches(i, host) ==
    LET domain == entries[domains[i]].domain IN
    \/ domain = host
    \/ /\ Len(host) > Len(domain)
       /\ host[Len(host) - Len(domain)] = "."
       /\ \A k \in 1..Len(domain) : host[Len(host) - Len(domain) + k] = domain[k]

\* C21: the host lookup returns the first entry, in registry order, whose
\* domain equals the host or for which the host ends with a dot followed by
\* the domain, and none when no entry does; api.example.com finds the entry
\* example.com and notexample.com does not.
C21_FirstMatchingEntry ==
    observed.listener = "_get_domain_entry" =>
      /\ observed.result = 0 =>
            \A i \in 1..Len(domains) : ~RowMatches(i, observed.host)
      /\ observed.result # 0 =>
            \E i \in 1..Len(domains) :
              /\ domains[i] = observed.result
              /\ RowMatches(i, observed.host)
              /\ \A j \in 1..(i - 1) : ~RowMatches(j, observed.host)
      /\ (observed.host = H_notexample /\ observed.result # 0)
            => entries[observed.result].domain # H_example

\* api.example.com found the entry example.com, the first of three entries
\* that all match it
C21_Witness ==
    /\ observed.listener = "_get_domain_entry"
    /\ observed.host = H_api_example
    /\ Len(domains) = 3
    /\ observed.result = domains[1]
    /\ entries[domains[1]].domain = H_example
    /\ entries[domains[2]].domain = H_api_example
    /\ entries[domains[3]].domain = H_com

\* ------------------------------------------------------------------------
\* Specification: the registry under add, edit, remove and set-primary
\* ------------------------------------------------------------------------

\* What the operator enters in the Edit Domain dialog
EditConfigs == [domain : RawDomains, auth_mode : {AUTH_AUTO}]

EditStep ==
    /\ \E row \in Rows : \E config \in EditConfigs : EditDomain(row, config)
    /\ UNCHANGED <<refreshVars, storeVars, dispatchVars, settings, threadVars, observed>>

NextConsole == AddStep \/ EditStep \/ RemoveStep \/ SetPrimaryStep

SpecConsole == Init /\ [][NextConsole]_vars

\* C22: after any sequence of add, edit and remove operations no two registry
\* entries have the same domain and every entry's domain is in normalized form
\* (lowercase, no scheme, no path).
C22_UniqueNormalizedDomains ==
    /\ \A i \in 1..Len(domains) : \A j \in 1..Len(domains) :
         i # j => entries[domains[i]].domain # entries[domains[j]].domain
    /\ \A i \in 1..Len(domains) :
         LET domain == entries[domains[i]].domain IN
         /\ domain = Lower(domain)
         /\ ~Contains(domain, <<"/">>)
         /\ ~Contains(domain, <<":">>)

\* ------------------------------------------------------------------------
\* Specification: remove and set-primary with the selected row recorded
\* ------------------------------------------------------------------------

ConsoleCall(operation, row) ==
    [NoCall EXCEPT !.seq = 1 - observed.seq, !.listener = operation, !.row = row,
                   !.primary_before =
                      {i \in 1..Len(domains) : entries[domains[i]].is_primary}]

SetPrimaryCall ==
    \E row \in Rows :
      /\ SetPrimary(row)
      /\ observed' = ConsoleCall("_set_primary", row)
      /\ UNCHANGED <<refreshVars, storeVars, dispatchVars, settings, threadVars>>

RemoveCall ==
    \E row \in Rows :
      /\ RemoveDomain(row)
      /\ observed' = ConsoleCall("_remove_domain", row)
      /\ UNCHANGED <<refreshVars, storeVars, dispatchVars, settings, threadVars>>

NextSelect == AddStep \/ SetPrimaryCall \/ RemoveCall

SpecSelect == Init /\ [][NextSelect]_vars

\* The selected row names an entry of the registry
RowPresent(row) == row >= 0 /\ row < Len(domains)

\* C23: set-primary on a row that is not in the registry changes no entry's
\* is_primary flag; on a row that is present it sets the flag on exactly that
\* entry and clears it on all others.
C23_SetPrimaryTargets ==
    [][(Called /\ observed'.listener = "_set_primary")
       => /\ domains' = domains
          /\ \A i \in 1..Len(domains) :
               entries'[domains[i]].is_primary =
                 IF RowPresent(observed'.row) THEN i - 1 = observed'.row
                 ELSE entries[domains[i]].is_primary]_vars

\* C24: removing the primary entry from a registry with other entries makes
\* the first remaining entry primary; removing a non-primary entry leaves
\* is_primary of every remaining entry unchanged; removing a row that is not
\* present changes nothing.
C24_RemovePromotesFirst ==
    [][(Called /\ observed'.listener = "_remove_domain")
       => LET row == observed'.row IN
          IF ~RowPresent(row)
          THEN domains' = domains /\ entries' = entries
          ELSE /\ Len(domains') = Len(domains) - 1
               /\ \A i \in 1..Len(domains') :
                    domains'[i] = IF i <= row THEN domains[i] ELSE domains[i + 1]
               /\ IF entries[domains[row + 1]].is_primary
                  THEN Len(domains') > 0 => entries'[domains'[1]].is_primary
                  ELSE \A i \in 1..Len(domains') :
                         entries'[domains'[i]].is_primary
                           = entries[domains'[i]].is_primary]_vars

\* The primary, at row 1 of three entries, was removed and the entry now
\* first is primary
C24_Witness ==
    /\ observed.listener = "_remove_domain"
    /\ observed.row = 1
    /\ observed.primary_before = {2}
    /\ Len(domains) = 2
    /\ entries[domains[1]].is_primary
    /\ ~entries[domains[2]].is_primary

\* ------------------------------------------------------------------------
\* Refresh All Sessions: the button's thread runs _refresh_all_sessions
\* while other threads run _trigger_refresh for one domain each
\* ------------------------------------------------------------------------
NextRefreshAll ==
    \/ RefreshAllBegin \/ RefreshAllNext \/ RefreshAllReturn
    \/ TriggerStartStep \/ TriggerCheckStep \/ TriggerPrepareStep \/ TriggerCompleteStep

\* Every thread that can take a step is scheduled, and a send through
\* makeHttpRequest comes back (with a response, with None or by raising)
RefreshAllFairness ==
    /\ WF_vars(RefreshAllBegin) /\ WF_vars(RefreshAllNext) /\ WF_vars(RefreshAllReturn)
    /\ \A t \in RefresherSlots :
         /\ WF_vars(TriggerCheck(t))
         /\ WF_vars(TriggerPrepare(t))
         /\ WF_vars(\E outcome \in TransportOutcomes : TriggerComplete(t, outcome))

SpecRefreshAll == InitRefresh /\ [][NextRefreshAll]_vars /\ RefreshAllFairness

\* The thread running the call in slot t holds domains_lock
HoldsDomainsLock(t) ==
    /\ domains_lock = RefreshAllThread
    /\ refresh_all.pc = "call"
    /\ refresh_all.slot = t

\* The next statement of the call in slot t enters a lock: pending_refresh_lock
\* at line 2419 or, through _get_domain_entry, domains_lock at line 2184
AcquiresLock(t) == refreshers[t].pc \in {"start", "prepare"}

\* The call in slot t is inside makeHttpRequest (line 2455)
WaitsOnSend(t) == refreshers[t].pc = "sending"

\* C25: no thread holds the registry lock while it waits on a transport send
\* or while it acquires another lock.
C25_NoLockHeldWhileBlocking ==
    \A t \in RefresherSlots : HoldsDomainsLock(t) => ~AcquiresLock(t) /\ ~WaitsOnSend(t)

\* C28: Refresh All Sessions, once started, terminates, and by then a refresh
\* was triggered for every registered domain (the loop went past its last row).
C28_RefreshAllTerminates ==
    /\ refresh_all.pc # "idle" ~> refresh_all.pc = "done"
    /\ [](refresh_all.pc = "done" => refresh_all.i > Len(domains))

\* C26: a domain marked in flight is eventually unmarked, whatever the send
\* does and wherever the call returns, and a call that returns because the
\* domain was already in flight leaves the marker in place.
C26_MarkerEventuallyRemoved ==
    /\ \A domain \in RefreshDomains :
         domain \in pending_refresh ~> domain \notin pending_refresh
    /\ [][\A t \in RefresherSlots :
            refreshers[t].pc = "start" /\ refreshers'[t].pc = "deduped"
               => UNCHANGED pending_refresh]_vars

\* ------------------------------------------------------------------------
\* Refresh propagation: responses reach _capture_from_response through the
\* two listeners while the started refresh threads run
\* ------------------------------------------------------------------------
CaptureRequests == {PlainRequest, Req(P_Refresh_upper, NoToken, <<>>, FALSE)}

CaptureResponses == {NoResponse, LoginResponse}

CaptureHosts == {H_b, H_x}

\* b.c, x.c and zb.c with b.c primary, b.c's mode being Auto Detect or None
CaptureRegistries ==
    { Registry(<<[domain |-> H_b, auth_mode |-> mode], Auto(H_x), Auto(H_zb)>>) :
        mode \in {AUTH_AUTO, AUTH_NONE} }

InitCapture ==
    /\ \E r \in CaptureRegistries :
         /\ entries = r.entries
         /\ domains = r.domains
    /\ settings \in {[DefaultSettings EXCEPT !.auto_refresh_mirrors = on] : on \in BOOLEAN}
    /\ pending_refresh = {}
    /\ refreshers = [t \in RefresherSlots |-> IdleRefresher]
    /\ result_objs = [id \in ResultIds |-> NoResult]
    /\ results = <<>>
    /\ inserted = <<>>
    /\ active_mirror_threads = 0
    /\ dispatches = [d \in DispatchSlots |-> IdleDispatch]
    /\ orphans = 0
    /\ log = {}
    /\ observed = NoCall
    /\ domains_lock = NoThread
    /\ refresh_all = IdleRefreshAll
    /\ capturers = [c \in CapturerSlots |-> IdleCapturer]

ProxyCaptureCall ==
    \E host \in CaptureHosts : \E request \in CaptureRequests :
      \E response \in CaptureResponses :
        /\ ProxyResponse(host, request, response)
        /\ observed' = Call("proxy", TOOL_PROXY, FALSE, host, request, response)

HttpCaptureCall ==
    \E host \in CaptureHosts : \E request \in CaptureRequests :
      \E response \in CaptureResponses :
        /\ HttpResponse(TOOL_REPEATER, host, request, response)
        /\ observed' = Call("http", TOOL_REPEATER, FALSE, host, request, response)

NextCapture ==
    \/ SetPrimaryStep
    \/ ProxyCaptureCall \/ HttpCaptureCall
    \/ TriggerCheckStep \/ TriggerPrepareStep \/ TriggerCompleteStep

SpecCapture == InitCapture /\ [][NextCapture]_vars

\* A listener handed the response to _capture_from_response and the capture
\* went past its two early returns (lines 2280-2287)
CapturedResponse ==
    /\ Called
    /\ ~observed'.is_request
    /\ GetDomainEntry(observed'.host) # 0
    /\ ~observed'.response.empty
    /\ entries[GetDomainEntry(observed'.host)].auth_mode # AUTH_NONE

\* The call started a thread running _trigger_refresh(domain), which has not
\* taken a step when the call returns
StartedRefresh(domain) ==
    \E t \in RefresherSlots :
      /\ refreshers[t].pc \in FinishedPcs
      /\ refreshers'[t] = [pc |-> "start", domain |-> domain, entry |-> 0]

\* C27: a captured response starts a refresh thread for every current mirror
\* domain exactly when the request path matches a refresh pattern, the entry
\* is primary and auto-refresh propagation is on; the call returns with those
\* threads not yet run; when one of the three is false no thread is started.
C27_PropagatesExactlyWhen ==
    [][CapturedResponse
       => LET entry == entries[GetDomainEntry(observed'.host)]
              mirrors == {entries[domains[i]].domain :
                            i \in {j \in 1..Len(domains) : ~entries[domains[j]].is_primary}}
          IN IF /\ \E p \in 1..Len(refresh_patterns) :
                       Contains(Lower(UrlPath(observed'.request.target)), refresh_patterns[p])
                /\ entry.is_primary
                /\ settings.auto_refresh_mirrors
             THEN /\ \A domain \in mirrors : StartedRefresh(domain)
                  /\ \A t \in RefresherSlots :
                       refreshers'[t] # refreshers[t] => refreshers'[t].domain \in mirrors
                  /\ UNCHANGED pending_refresh
             ELSE UNCHANGED refreshVars]_vars

C27_Witness ==
    /\ observed.listener = "proxy"
    /\ ~observed.is_request
    /\ observed.host = H_b
    /\ observed.request.target = P_Refresh_upper
    /\ settings.auto_refresh_mirrors
    /\ PrimaryRows = {1}
    /\ {refreshers[t].domain : t \in {u \in RefresherSlots : refreshers[u].pc = "start"}}
         = {H_x, H_zb}

\* ------------------------------------------------------------------------
\* Concurrent captures: two threads of Burp run _capture_from_request on
\* requests to the same registered host
\* ------------------------------------------------------------------------
RaceModes == {AUTH_AUTO, AUTH_COOKIES, AUTH_BEARER, AUTH_BOTH}

RaceRequests == {BearerRequest, SessionRequest}

InitRace ==
    /\ \E mode \in RaceModes :
         LET r == Registry(<<[domain |-> H_b, auth_mode |-> mode]>>) IN
         /\ entries = r.entries
         /\ domains = r.domains
    /\ settings = DefaultSettings
    /\ pending_refresh = {}
    /\ refreshers = [t \in RefresherSlots |-> IdleRefresher]
    /\ result_objs = [id \in ResultIds |-> NoResult]
    /\ results = <<>>
    /\ inserted = <<>>
    /\ active_mirror_threads = 0
    /\ dispatches = [d \in DispatchSlots |-> IdleDispatch]
    /\ orphans = 0
    /\ log = {}
    /\ observed = NoCall
    /\ domains_lock = NoThread
    /\ refresh_all = IdleRefreshAll
    /\ capturers = [c \in CapturerSlots |-> IdleCapturer]

\* processProxyMessage / processHttpMessage look the host up and hand the
\* entry to _capture_from_request
CaptureStoreStep ==
    \E c \in CapturerSlots : \E request \in RaceRequests :
      /\ GetDomainEntry(H_b) # 0
      /\ CaptureStore(c, GetDomainEntry(H_b), request)

CaptureReadStep == \E c \in CapturerSlots : CaptureRead(c)
CaptureWriteStep == \E c \in CapturerSlots : CaptureWrite(c)

NextRace == CaptureStoreStep \/ CaptureReadStep \/ CaptureWriteStep

SpecRace == InitRace /\ [][NextRace]_vars

\* C29: once two concurrent captures on the same entry have both finished,
\* the stored status is the status derived from the final cookies and bearer.
C29_StatusAfterConcurrentCaptures ==
    (\A c \in CapturerSlots : capturers[c].pc = "done")
      => \A i \in 1..Len(domains) :
           entries[domains[i]].session.status = DerivedStatus(entries[domains[i]])

\* ------------------------------------------------------------------------
\* Sends in progress for the Mirror Dispatcher
\* ------------------------------------------------------------------------

\* The do_request threads (lines 3001-3011) that are inside makeHttpRequest:
\* those whose caller still polls result["done"] (lines 3013-3015) and those
\* whose caller returned the timeout at line 3018
SendsInProgress ==
    Cardinality({d \in DispatchSlots : dispatches[d].pc = "wait"}) + orphans

\* C30: the transport sends in progress for mirror dispatches, those given
\* up on timeout included, never exceed the configured maximum of concurrent
\* mirrors.
C30_SendsWithinLimit == SendsInProgress <= settings.max_concurrent_mirrors

\* ------------------------------------------------------------------------
\* Dispatches under timeouts: the do_mirror threads are scheduled, and the
\* polling loop of _make_request_with_timeout (lines 3013-3015) ends when the
\* send is done or the timeout has passed; an abandoned send need never end
\* ------------------------------------------------------------------------
DispatchFairness ==
    \A d \in DispatchSlots :
      /\ WF_vars(MirrorBegin(d))
      /\ WF_vars(MirrorSend(d))
      /\ WF_vars(\E outcome \in MirrorOutcomes : MirrorReceive(d, outcome))
      /\ WF_vars(MirrorCompare(d))
      /\ WF_vars(MirrorPublish(d))
      /\ WF_vars(MirrorFinished(d))

\* b.c primary with the mirrors x.c and zb.c, one dispatch at a time
InitTimeout ==
    /\ LET r == Registry(<<Auto(H_b), Auto(H_x), Auto(H_zb)>>) IN
         /\ entries = r.entries
         /\ domains = r.domains
    /\ settings = DispatchSettings(OneAtATime)
    /\ pending_refresh = {}
    /\ refreshers = [t \in RefresherSlots |-> IdleRefresher]
    /\ result_objs = [id \in ResultIds |-> NoResult]
    /\ results = <<>>
    /\ inserted = <<>>
    /\ active_mirror_threads = 0
    /\ dispatches = [d \in DispatchSlots |-> IdleDispatch]
    /\ orphans = 0
    /\ log = {}
    /\ observed = NoCall
    /\ domains_lock = NoThread
    /\ refresh_all = IdleRefreshAll
    /\ capturers = [c \in CapturerSlots |-> IdleCapturer]

ProxyTimeoutStep ==
    /\ ProxyResponse(H_b, PlainRequest, PlainResponse)
    /\ UNCHANGED observed

NextTimeout ==
    \/ ProxyTimeoutStep
    \/ MirrorBeginStep \/ MirrorSendStep \/ MirrorReceiveStep
    \/ MirrorCompareStep \/ MirrorPublishStep \/ MirrorFinishedStep
    \/ LateCompletion

SpecTimeout == InitTimeout /\ [][NextTimeout]_vars /\ DispatchFairness

\* C31: a dispatch waiting on a mirror send eventually finishes with its
\* result appended to the store, whether or not abandoned sends ever return;
\* and the end of an abandoned send changes no stored result and no session.
C31_DispatchOutlivesTimeout ==
    /\ \A d \in DispatchSlots : \A id \in ResultIds :
         (dispatches[d].pc = "wait" /\ dispatches[d].result = id)
           ~> (dispatches[d] = IdleDispatch /\ id \in Range(inserted))
    /\ [][orphans' < orphans => UNCHANGED <<entries, result_objs, results>>]_vars

C31_Witness ==
    \E d \in DispatchSlots :
      /\ dispatches[d].pc = "finally"
      /\ dispatches[d].outcomes # <<>>
      /\ \A i \in 1..Len(dispatches[d].outcomes) : dispatches[d].outcomes[i] = "timeout"
      /\ dispatches[d].result \in Range(results)
      /\ orphans = MaxOrphans

\* ------------------------------------------------------------------------
\* Delivery of observed responses: Burp hands a proxied response to
\* processProxyMessage and, with the proxy tool flag, to processHttpMessage;
\* responses of the other tools reach processHttpMessage only
\* ------------------------------------------------------------------------
DeliverSettings ==
    { [DefaultSettings EXCEPT
         !.mirror_enabled = enabled, !.mirror_from_proxy = proxy,
         !.mirror_from_repeater = repeater, !.auto_refresh_mirrors = FALSE,
         !.max_concurrent_mirrors = TwoAtATime] :
        enabled \in BOOLEAN, proxy \in BOOLEAN, repeater \in BOOLEAN }

DeliverHosts == {H_b, H_x}

DeliverTools == {TOOL_PROXY, TOOL_REPEATER, TOOL_SCANNER}

InitDeliver ==
    /\ LET r == Registry(<<Auto(H_b), Auto(H_x)>>) IN
         /\ entries = r.entries
         /\ domains = r.domains
    /\ settings \in DeliverSettings
    /\ pending_refresh = {}
    /\ refreshers = [t \in RefresherSlots |-> IdleRefresher]
    /\ result_objs = [id \in ResultIds |-> NoResult]
    /\ results = <<>>
    /\ inserted = <<>>
    /\ active_mirror_threads = 0
    /\ dispatches = [d \in DispatchSlots |-> IdleDispatch]
    /\ orphans = 0
    /\ log = {}
    /\ observed = NoCall
    /\ domains_lock = NoThread
    /\ refresh_all = IdleRefreshAll
    /\ capturers = [c \in CapturerSlots |-> IdleCapturer]

ProxyDeliverCall ==
    \E host \in DeliverHosts :
      /\ ProxyResponse(host, PlainRequest, PlainResponse)
      /\ observed' = Call("proxy", TOOL_PROXY, FALSE, host, PlainRequest, PlainResponse)

HttpDeliverCall ==
    \E toolFlag \in DeliverTools : \E host \in DeliverHosts :
      /\ HttpResponse(toolFlag, host, PlainRequest, PlainResponse)
      /\ observed' = Call("http", toolFlag, FALSE, host, PlainRequest, PlainResponse)

DispatchThreadStep ==
    /\ \/ MirrorBeginStep \/ MirrorSendStep \/ MirrorReceiveStep
       \/ MirrorCompareStep \/ MirrorPublishStep \/ MirrorFinishedStep
    /\ UNCHANGED observed

NextDeliver == ProxyDeliverCall \/ HttpDeliverCall \/ DispatchThreadStep

SpecDeliver == InitDeliver /\ [][NextDeliver]_vars

\* The do_mirror threads the step starts
StartedDispatches ==
    {d \in DispatchSlots : dispatches[d].pc = "idle" /\ dispatches'[d].pc = "start"}

\* The setting that makes the observing tool a mirror trigger
ToolIsTrigger(call) ==
    CASE call.toolFlag = TOOL_PROXY -> settings.mirror_from_proxy
      [] call.toolFlag = TOOL_REPEATER -> settings.mirror_from_repeater
      [] call.toolFlag = TOOL_SCANNER -> settings.mirror_from_scanner
      [] call.toolFlag = TOOL_INTRUDER -> settings.mirror_from_intruder
      [] call.toolFlag = TOOL_EXTENDER -> settings.mirror_from_extender
      [] OTHER -> FALSE

\* C32: of the two deliveries of a proxied primary response the proxy
\* listener starts at most one dispatch and the HTTP listener none, and a
\* dispatch appends at most one result; no delivery starts a dispatch while
\* mirroring is disabled, the matched entry is not primary or the tool is not
\* enabled as a mirror trigger.
C32_OneDispatchPerObservation ==
    /\ [][Called /\ ~observed'.is_request
           => LET id == GetDomainEntry(observed'.host) IN
              /\ Cardinality(StartedDispatches) <= 1
              /\ active_mirror_threads' = active_mirror_threads + Cardinality(StartedDispatches)
              /\ observed'.listener = "http" /\ observed'.toolFlag = TOOL_PROXY
                   => StartedDispatches = {}
              /\ \/ ~settings.mirror_enabled
                 \/ id = 0
                 \/ ~entries[id].is_primary
                 \/ ~ToolIsTrigger(observed')
                   => StartedDispatches = {}]_vars
    /\ [][~Called => StartedDispatches = {}]_vars
    /\ [][inserted' # inserted
           => \E d \in DispatchSlots :
                /\ dispatches[d].pc = "publish" /\ dispatches'[d].pc = "finally"
                /\ inserted' = Append(inserted, dispatches[d].result)
                /\ dispatches[d].result \notin Range(inserted)]_vars

C32_Witness ==
    /\ observed.listener = "http"
    /\ observed.toolFlag = TOOL_PROXY
    /\ observed.host = H_b
    /\ settings.mirror_enabled /\ settings.mirror_from_proxy
    /\ Cardinality(Running) = 1
    /\ active_mirror_threads = 1
    /\ inserted = <<>>

\* ------------------------------------------------------------------------
\* Token capture: bearers arrive in Authorization headers of requests and
\* in JSON bodies of responses of one registered host
\* ------------------------------------------------------------------------
JsonBody(text, json) == [text |-> text, size |-> Len(text), is_json |-> TRUE, json |-> json]

\* {"token": <abc>}
J_top == JsonBody("{t}", [token |-> JStr(Tabc)])
\* {"data": {"access_token": <t2>}}
J_data == JsonBody("{d}", [data |-> JObj([access_token |-> JStr(T2)])])
\* {"result": {"jwt": <t1>}}
J_result == JsonBody("{r}", [result |-> JObj([jwt |-> JStr(T1)])])
\* {"token": <abc>, "data": {"access_token": <t2>}}
J_both == JsonBody("{td}", [token |-> JStr(Tabc),
                            data |-> JObj([access_token |-> JStr(T2)])])

TokenBodies == {B_A, J_top, J_data, J_result, J_both}

TokenRequests == {PlainRequest, BearerRequest, Req(P_d, T1, <<>>, FALSE)}

InitTokens ==
    /\ \E mode \in AUTH_MODES :
         LET r == Registry(<<[domain |-> H_b, auth_mode |-> mode]>>) IN
         /\ entries = r.entries
         /\ domains = r.domains
    /\ settings = DefaultSettings
    /\ pending_refresh = {}
    /\ refreshers = [t \in RefresherSlots |-> IdleRefresher]
    /\ result_objs = [id \in ResultIds |-> NoResult]
    /\ results = <<>>
    /\ inserted = <<>>
    /\ active_mirror_threads = 0
    /\ dispatches = [d \in DispatchSlots |-> IdleDispatch]
    /\ orphans = 0
    /\ log = {}
    /\ observed = NoCall
    /\ domains_lock = NoThread
    /\ refresh_all = IdleRefreshAll
    /\ capturers = [c \in CapturerSlots |-> IdleCapturer]

TokenRequestCall ==
    \E request \in TokenRequests :
      /\ ProxyRequest(H_b, request)
      /\ observed' = Call("proxy", TOOL_PROXY, TRUE, H_b, request, NoResponse)

TokenResponseCall ==
    \E body \in TokenBodies :
      /\ ProxyResponse(H_b, PlainRequest, Resp(200, <<>>, body))
      /\ observed' = Call("proxy", TOOL_PROXY, FALSE, H_b, PlainRequest,
                          Resp(200, <<>>, body))

NextTokens == TokenRequestCall \/ TokenResponseCall

SpecTokens == InitTokens /\ [][NextTokens]_vars

\* The string values a JSON object has under the token keys
TokensIn(obj) ==
    {obj[k].v : k \in {c \in Range(token_keys) \cap DOMAIN obj : obj[c].t = "str"}}

\* The tokens in the nested data and result objects of a JSON object
NestedTokensIn(obj) ==
    UNION {TokensIn(obj[n].v) : n \in {m \in {"data", "result"} \cap DOMAIN obj : obj[m].t = "obj"}}

\* C33: from a JSON response body the bearer stored is a top-level token when
\* a token key is present at the top level, a nested one only when none is,
\* and the bearer is left alone when it is not in scope for the mode.
C33_TopLevelTokenFirst ==
    [][(Called /\ ~observed'.is_request /\ observed'.response.body.is_json)
       => LET id == GetDomainEntry(observed'.host)
              json == observed'.response.body.json
              top == TokensIn(json)
              nested == NestedTokensIn(json)
          IN IF entries[id].auth_mode \in {AUTH_AUTO, AUTH_BEARER, AUTH_BOTH}
             THEN /\ top # {} => entries'[id].session.bearer \in top
                  /\ top = {} /\ nested # {} => entries'[id].session.bearer \in nested
                  /\ top = {} /\ nested = {}
                       => entries'[id].session.bearer = entries[id].session.bearer
             ELSE entries'[id].session.bearer = entries[id].session.bearer]_vars

\* C34: a stored token expiry is the exp claim of the stored bearer, and it
\* is unset when the stored bearer has no readable exp claim.
C34_ExpiryOfStoredBearer ==
    \A i \in 1..Len(domains) :
      LET session == entries[domains[i]].session IN
      session.token_expiry = session.bearer.exp

\* ------------------------------------------------------------------------
\* The header loop of _build_mirrored_request on the list of header lines
\* ------------------------------------------------------------------------

\* A header line, name and value as the characters of the line
HeaderLine(name, value) == name \o <<":", " ">> \o value

HOST_PREFIX == <<"h", "o", "s", "t", ":">>
AUTHORIZATION_PREFIX ==
    <<"a", "u", "t", "h", "o", "r", "i", "z", "a", "t", "i", "o", "n", ":">>
COOKIE_PREFIX == <<"c", "o", "o", "k", "i", "e", ":">>

HostName == <<"H", "o", "s", "t">>
AuthorizationName ==
    <<"A", "u", "t", "h", "o", "r", "i", "z", "a", "t", "i", "o", "n">>
CookieName == <<"C", "o", "o", "k", "i", "e">>
Bearer(token) == <<"B", "e", "a", "r", "e", "r", " ">> \o <<token.id>>

\* "; ".join([k + "=" + v for k, v in session["cookies"].items()])
RECURSIVE CookieStr(_)
CookieStr(pairs) ==
    IF pairs = <<>> THEN <<>>
    ELSE <<Head(pairs)[1], "=", Head(pairs)[2]>>
           \o (IF Len(pairs) > 1 THEN <<";", " ">> ELSE <<>>)
           \o CookieStr(Tail(pairs))

\* header.lower().startswith(name.lower() + ":")
HasName(header, name) == StartsWith(Lower(header), Lower(name) \o <<":">>)

\* The body of the loop at lines 2660-2702 for a header after the first
\* line: the lines it appends to new_headers
MirroredHeader(header, mirror_entry) ==
    LET auth_mode == mirror_entry.auth_mode
        session == mirror_entry.session
    IN IF StartsWith(Lower(header), HOST_PREFIX)
       THEN <<HeaderLine(HostName, mirror_entry.domain)>>
       ELSE IF StartsWith(Lower(header), AUTHORIZATION_PREFIX)
       THEN IF BearerInScope(auth_mode) /\ session.bearer.id # ""
            THEN <<HeaderLine(AuthorizationName, Bearer(session.bearer))>>
            ELSE IF auth_mode \in {AUTH_NONE, AUTH_COOKIES} THEN <<>>
            ELSE <<header>>
       ELSE IF StartsWith(Lower(header), COOKIE_PREFIX)
       THEN IF CookiesInScope(auth_mode) /\ DOMAIN session.cookies # {}
            THEN <<HeaderLine(CookieName, CookieStr(CookiePairs(session.cookies)))>>
            ELSE IF auth_mode \in {AUTH_NONE, AUTH_BEARER} THEN <<>>
            ELSE <<header>>
       ELSE IF HasName(header, mirror_entry.custom_header_name)
       THEN IF auth_mode = AUTH_CUSTOM /\ mirror_entry.custom_header_value # <<>>
            THEN <<HeaderLine(mirror_entry.custom_header_name,
                              mirror_entry.custom_header_value)>>
            ELSE <<header>>
       ELSE <<header>>

RECURSIVE MirroredHeaders(_, _)
MirroredHeaders(headers, mirror_entry) ==
    IF headers = <<>> THEN <<>>
    ELSE MirroredHeader(Head(headers), mirror_entry)
           \o MirroredHeaders(Tail(headers), mirror_entry)

\* new_headers of _build_mirrored_request (lines 2656-2726) for the header
\* lines of the observed request, the request line first
BuildMirroredHeaders(headers, mirror_entry) ==
    LET auth_mode == mirror_entry.auth_mode
        session == mirror_entry.session
        rest == Tail(headers)
        has_auth == \E i \in 1..Len(rest) :
                       /\ ~StartsWith(Lower(rest[i]), HOST_PREFIX)
                       /\ StartsWith(Lower(rest[i]), AUTHORIZATION_PREFIX)
        has_cookie == \E i \in 1..Len(rest) :
                         /\ ~StartsWith(Lower(rest[i]), HOST_PREFIX)
                         /\ ~StartsWith(Lower(rest[i]), AUTHORIZATION_PREFIX)
                         /\ StartsWith(Lower(rest[i]), COOKIE_PREFIX)
        looped == <<Head(headers)>> \o MirroredHeaders(rest, mirror_entry)
        with_auth ==
            IF BearerInScope(auth_mode) /\ ~has_auth /\ session.bearer.id # ""
            THEN Append(looped, HeaderLine(AuthorizationName, Bearer(session.bearer)))
            ELSE looped
        with_cookie ==
            IF CookiesInScope(auth_mode) /\ ~has_cookie
               /\ DOMAIN session.cookies # {}
            THEN Append(with_auth,
                        HeaderLine(CookieName,
                                   CookieStr(CookiePairs(session.cookies))))
            ELSE with_auth
        header_name == mirror_entry.custom_header_name
        header_value == mirror_entry.custom_header_value
        has_custom == \E i \in 1..Len(with_cookie) :
                         HasName(with_cookie[i], header_name)
        with_custom ==
            IF /\ auth_mode = AUTH_CUSTOM
               /\ header_name # <<>> /\ header_value # <<>>
               /\ ~has_custom
            THEN Append(with_cookie, HeaderLine(header_name, header_value))
            ELSE with_cookie
    IN Append(with_custom,
              <<"X-DomainMirror-Internal", ":", " ", "true">>)

\* ------------------------------------------------------------------------
\* _build_mirrored_request applied to observed header lists, for a mirror
\* x.c in every auth mode, with and without a custom header and a session
\* ------------------------------------------------------------------------
MaxHeaders == 2

CustomName == <<"X", "-", "A">>
CustomNames == {<<>>, CustomName, AuthorizationName}
CustomValues == {<<>>, <<"v">>}

RequestLine == <<"G", "E", "T", " ", "/", " ", "H", "T", "T", "P", "/", "1", ".", "1">>

ObservedHeaders ==
    { HeaderLine(HostName, H_b),
      HeaderLine(AuthorizationName, Bearer(T1)),
      HeaderLine(CookieName, <<"s", "=", "1">>),
      HeaderLine(CustomName, <<"o">>),
      HeaderLine(Lower(CustomName), <<"p">>) }

HeaderLists ==
    UNION { [1..n -> ObservedHeaders] : n \in 0..MaxHeaders }

CapturedSession ==
    [EmptySession EXCEPT !.bearer = T2, !.cookies = ("s" :> "2"),
                         !.status = "authenticated"]

InitHeaders ==
    /\ \E mode \in AUTH_MODES : \E name \in CustomNames :
       \E value \in CustomValues : \E session \in {EmptySession, CapturedSession} :
         LET r == Registry(<<Auto(H_b),
                             [domain |-> H_x, auth_mode |-> mode,
                              custom_header_name |-> name,
                              custom_header_value |-> value]>>) IN
         /\ entries = [r.entries EXCEPT ![2].session = session]
         /\ domains = r.domains
    /\ settings = DefaultSettings
    /\ pending_refresh = {}
    /\ refreshers = [t \in RefresherSlots |-> IdleRefresher]
    /\ result_objs = [id \in ResultIds |-> NoResult]
    /\ results = <<>>
    /\ inserted = <<>>
    /\ active_mirror_threads = 0
    /\ dispatches = [d \in DispatchSlots |-> IdleDispatch]
    /\ orphans = 0
    /\ log = {}
    /\ observed = NoCall
    /\ domains_lock = NoThread
    /\ refresh_all = IdleRefreshAll
    /\ capturers = [c \in CapturerSlots |-> IdleCapturer]

\* _build_mirrored_request(original_request, mirror_entry) for the mirror x.c
BuildHeadersCall ==
    \E lines \in HeaderLists :
      LET headers == <<RequestLine>> \o lines IN
      /\ observed' = [NoCall EXCEPT
                        !.seq = 1, !.listener = "build",
                        !.is_request = TRUE, !.host = H_x,
                        !.request = headers,
                        !.result = BuildMirroredHeaders(headers, entries[2])]
      /\ UNCHANGED progVars

NextHeaders == BuildHeadersCall

SpecHeaders == InitHeaders /\ [][NextHeaders]_vars

\* The positions of the header lines with the given name
Named(headers, name) == {i \in 2..Len(headers) : HasName(headers[i], name)}

\* The lines of a header list at the positions of a set, in order
RECURSIVE LinesAt(_, _)
LinesAt(headers, S) ==
    IF S = {} THEN <<>>
    ELSE LET i == MinOf(S) IN <<headers[i]>> \o LinesAt(headers, S \ {i})

\* C35: for a mirror in mode Custom Header with a header name and value
\* configured, the built request has a header with that name and every
\* header with that name is "name: value" (as many as the observed request
\* had, one when it had none); for a mirror in another mode the observed
\* headers with the configured name are in the built request as they were
C35_CustomHeaderCarriesValue ==
    observed.listener = "build" =>
      LET mirror_entry == entries[2]
          name == mirror_entry.custom_header_name
          value == mirror_entry.custom_header_value
          before == Named(observed.request, name)
          after == Named(observed.result, name)
      IN IF mirror_entry.auth_mode = AUTH_CUSTOM
         THEN (name # <<>> /\ value # <<>>) =>
                /\ after # {}
                /\ \A i \in after : observed.result[i] = HeaderLine(name, value)
                /\ Cardinality(after) =
                     IF before = {} THEN 1 ELSE Cardinality(before)
         ELSE name # <<>> =>
                LinesAt(observed.result, after) = LinesAt(observed.request, before)

\* ------------------------------------------------------------------------
\* Clear session: b.c (primary, with a custom header configured) and x.c,
\* sessions captured from proxied requests, then cleared by row
\* ------------------------------------------------------------------------
ClearRequests == {BearerRequest, SessionRequest, Req(P_d, T1, <<>>, FALSE)}

ClearHosts == {H_b, H_x}

InitClear ==
    /\ \E mode \in {AUTH_CUSTOM, AUTH_BOTH} :
         LET r == Registry(<<[domain |-> H_b, auth_mode |-> mode,
                              custom_header_name |-> CustomName,
                              custom_header_value |-> <<"v">>],
                             Auto(H_x)>>) IN
         /\ entries = r.entries
         /\ domains = r.domains
    /\ settings = DefaultSettings
    /\ pending_refresh = {}
    /\ refreshers = [t \in RefresherSlots |-> IdleRefresher]
    /\ result_objs = [id \in ResultIds |-> NoResult]
    /\ results = <<>>
    /\ inserted = <<>>
    /\ active_mirror_threads = 0
    /\ dispatches = [d \in DispatchSlots |-> IdleDispatch]
    /\ orphans = 0
    /\ log = {}
    /\ observed = NoCall
    /\ domains_lock = NoThread
    /\ refresh_all = IdleRefreshAll
    /\ capturers = [c \in CapturerSlots |-> IdleCapturer]

ClearRequestCall ==
    \E host \in ClearHosts : \E request \in ClearRequests :
      /\ ProxyRequest(host, request)
      /\ observed' = Call("proxy", TOOL_PROXY, TRUE, host, request, NoResponse)

ClearCall ==
    \E row \in Rows :
      /\ ClearSelectedSession(row)
      /\ observed' =
           [ConsoleCall("_clear_selected_session", row) EXCEPT
              !.result = IF row >= 0 /\ row < Len(domains)
                         THEN entries[domains[row + 1]].session
                         ELSE EmptySession]
      /\ UNCHANGED <<refreshVars, storeVars, dispatchVars, settings, threadVars>>

NextClear == ClearRequestCall \/ ClearCall

SpecClear == InitClear /\ [][NextClear]_vars

Cleared == Called /\ observed'.listener = "_clear_selected_session"

\* C36: Clear session on a row of the registry leaves that entry with empty
\* cookies, bearer, refresh token, token expiry and last_updated and with
\* status waiting, leaves its domain, is_primary, auth mode and custom header
\* name and value as they were, and changes no other entry nor the order of
\* the registry
C36_ClearResetsOnlySession ==
    [][(Cleared /\ RowPresent(observed'.row))
       => LET id == domains[observed'.row + 1] IN
          /\ entries'[id].session.cookies = <<>>
          /\ entries'[id].session.bearer = NoToken
          /\ entries'[id].session.refresh_token = NoToken
          /\ entries'[id].session.token_expiry = None
          /\ entries'[id].session.last_updated = None
          /\ entries'[id].session.status = "waiting"
          /\ entries'[id].domain = entries[id].domain
          /\ entries'[id].is_primary = entries[id].is_primary
          /\ entries'[id].auth_mode = entries[id].auth_mode
          /\ entries'[id].custom_header_name = entries[id].custom_header_name
          /\ entries'[id].custom_header_value = entries[id].custom_header_value
          /\ \A other \in EntryIds \ {id} : entries'[other] = entries[other]
          /\ domains' = domains]_vars

\* A session with a bearer and cookies (observed.result, the session before
\* the call) was cleared while the other entry holds a bearer and its expiry
C36_Witness ==
    /\ observed.listener = "_clear_selected_session"
    /\ observed.row = 0
    /\ entries[1].auth_mode = AUTH_BOTH
    /\ entries[1].custom_header_name = CustomName
    /\ observed.result.bearer = Tabc
    /\ observed.result.cookies # <<>>
    /\ entries[1].session = EmptySession
    /\ entries[2].session.bearer = T1
    /\ entries[2].session.token_expiry = T1.exp

\* ------------------------------------------------------------------------
\* Save Settings
\* ------------------------------------------------------------------------

Digits == <<"0", "1", "2", "3", "4", "5", "6", "7", "8", "9">>

IsDigit(c) == \E d \in 1..Len(Digits) : Digits[d] = c

DigitValue(c) == (CHOOSE d \in 1..Len(Digits) : Digits[d] = c) - 1

RECURSIVE DecimalValue(_)
DecimalValue(s) ==
    IF s = <<>> THEN 0
    ELSE 10 * DecimalValue(SubSeq(s, 1, Len(s) - 1)) + DigitValue(s[Len(s)])

\* int(text): an optional sign and decimal digits, nothing else.  ok is
\* FALSE where int raises ValueError.  The value has no upper limit (a
\* Python integer does not overflow).
ParseInt(text) ==
    LET signed == text # <<>> /\ text[1] \in {"+", "-"}
        digits == IF signed THEN Tail(text) ELSE text
        ok == digits # <<>> /\ \A i \in 1..Len(digits) : IsDigit(digits[i])
    IN [ok |-> ok,
        value |-> IF ~ok THEN 0
                  ELSE IF signed /\ text[1] = "-" THEN 0 - DecimalValue(digits)
                  ELSE DecimalValue(digits)]

\* A limit that is stored as typed, without the range check
SavedLimit_Unchecked(current, text, lowest, highest) ==
    LET parsed == ParseInt(Strip(text)) IN
    IF ~parsed.ok THEN current ELSE parsed.value

\* One of the four try blocks of _save_settings (lines 1737-1775): the value
\* of the limit after it
SavedLimit(current, text, lowest, highest) ==
    LET parsed == ParseInt(Strip(text)) IN
    IF ~parsed.ok THEN current
    ELSE IF parsed.value < lowest THEN lowest
    ELSE IF parsed.value > highest THEN highest
    ELSE parsed.value

\* _save_settings (lines 1721-1793) with the state of the checkboxes and the
\* text of the four limit fields; the pattern and key fields are left as
\* they are displayed
SaveSettings(fields) ==
    /\ settings' =
         [settings EXCEPT
            !.mirror_from_proxy = fields.proxy,
            !.mirror_from_repeater = fields.repeater,
            !.mirror_from_scanner = fields.scanner,
            !.mirror_from_intruder = fields.intruder,
            !.mirror_from_extender = fields.extender,
            !.auto_refresh_mirrors = fields.auto_refresh,
            !.max_results =
               SavedLimit(settings.max_results, fields.max_results, 10, 100000),
            !.max_concurrent_mirrors =
               SavedLimit(settings.max_concurrent_mirrors, fields.max_threads, 1, 50),
            !.request_timeout =
               SavedLimit(settings.request_timeout, fields.timeout, 1, 120),
            !.max_diff_lines =
               SavedLimit(settings.max_diff_lines, fields.diff_limit, 50, 10000)]
    /\ UNCHANGED <<regVars, refreshVars, storeVars, dispatchVars, threadVars>>

\* What the operator types into a limit field
LimitTexts ==
    << <<"a", "b", "c">>,
       <<"1", ".", "5">>,
       <<"-", "3">>,
       <<" ", "6", "0", " ">>,
       <<"2", "0", "0", "0", "0", "0">> >>

\* The texts of the four limit fields together: the same text in each, or
\* four different ones
LimitFields ==
    { [i \in 1..4 |-> LimitTexts[k]] : k \in 1..Len(LimitTexts) }
      \cup { [i \in 1..4 |-> LimitTexts[((i + k - 1) % Len(LimitTexts)) + 1]] :
               k \in 1..Len(LimitTexts) }

Checkboxes ==
    { [proxy |-> TRUE, repeater |-> FALSE, scanner |-> FALSE, intruder |-> FALSE,
       extender |-> FALSE, auto_refresh |-> TRUE],
      [proxy |-> FALSE, repeater |-> TRUE, scanner |-> TRUE, intruder |-> TRUE,
       extender |-> TRUE, auto_refresh |-> FALSE] }

\* The fields of the Settings tab when Save Settings is pressed
SettingsFields ==
    { [proxy |-> c.proxy, repeater |-> c.repeater, scanner |-> c.scanner,
       intruder |-> c.intruder, extender |-> c.extender,
       auto_refresh |-> c.auto_refresh,
       max_results |-> t[1], max_threads |-> t[2], timeout |-> t[3],
       diff_limit |-> t[4]] :
      c \in Checkboxes, t \in LimitFields }

SaveSettingsCall ==
    \E fields \in SettingsFields :
      /\ SaveSettings(fields)
      /\ observed' = [NoCall EXCEPT !.seq = 1 - observed.seq,
                                    !.listener = "_save_settings",
                                    !.request = fields]

NextSettings == SaveSettingsCall

SpecSettings == Init /\ [][NextSettings]_vars

\* text is how Python writes an integer, spaces around it allowed
IsIntegerText(text) == ParseInt(Strip(text)).ok

\* The limit a field leaves: the old one for text that is no integer, the
\* nearest bound for an integer outside lowest..highest, the integer itself
\* inside
LimitAfter(old, new, text, lowest, highest) ==
    LET value == ParseInt(Strip(text)).value IN
    IF ~IsIntegerText(text) THEN new = old
    ELSE /\ value < lowest => new = lowest
         /\ value > highest => new = highest
         /\ value \in lowest..highest => new = value

\* C37: the four limits are always within their ranges, and a Save Settings
\* clamps an integer outside a range to the nearest bound and keeps the
\* current value of a field whose text is no integer
C37_LimitsWithinRanges ==
    /\ [](/\ settings.max_results \in 10..100000
          /\ settings.max_concurrent_mirrors \in 1..50
          /\ settings.request_timeout \in 1..120
          /\ settings.max_diff_lines \in 50..10000)
    /\ [][(Called /\ observed'.listener = "_save_settings")
          => LET fields == observed'.request IN
             /\ LimitAfter(settings.max_results, settings'.max_results,
                           fields.max_results, 10, 100000)
             /\ LimitAfter(settings.max_concurrent_mirrors,
                           settings'.max_concurrent_mirrors,
                           fields.max_threads, 1, 50)
             /\ LimitAfter(settings.request_timeout, settings'.request_timeout,
                           fields.timeout, 1, 120)
             /\ LimitAfter(settings.max_diff_lines, settings'.max_diff_lines,
                           fields.diff_limit, 50, 10000)]_vars

\* A save with text that is no integer in the results field, an integer
\* below the range in the threads field, one inside the range in the timeout
\* field and one above the range in the diff lines field
C37_Witness ==
    /\ observed.listener = "_save_settings"
    /\ observed.request.max_results = <<"1", ".", "5">>
    /\ observed.request.max_threads = <<"-", "3">>
    /\ observed.request.timeout = <<" ", "6", "0", " ">>
    /\ observed.request.diff_limit = <<"2", "0", "0", "0", "0", "0">>
    /\ settings.max_results = 100000
    /\ settings.max_concurrent_mirrors = 1
    /\ settings.request_timeout = 60
    /\ settings.max_diff_lines = 10000

\* ------------------------------------------------------------------------
\* The diff view of a stored result
\* ------------------------------------------------------------------------

\* A body text as runs of one character: <<Run("x", 3), Run("\n", 1)>> is
\* "xxx\n".  No two neighbouring runs have the same character.
Run(c, n) == [c |-> c, n |-> n]

RECURSIVE TextLen(_)
TextLen(text) == IF text = <<>> THEN 0 ELSE Head(text).n + TextLen(Tail(text))

TextBody(text) == [text |-> text, size |-> TextLen(text), is_json |-> FALSE, json |-> <<>>]

\* text[:k]
RECURSIVE Truncate(_, _)
Truncate(text, k) ==
    IF text = <<>> \/ k <= 0 THEN <<>>
    ELSE IF Head(text).n <= k
         THEN <<Head(text)>> \o Truncate(Tail(text), k - Head(text).n)
         ELSE <<Run(Head(text).c, k)>>

\* text.splitlines(keepends=True) for texts whose only line break is "\n":
\* current is the line collected so far
RECURSIVE SplitLinesFrom(_, _)
SplitLinesFrom(text, current) ==
    IF text = <<>> THEN (IF current = <<>> THEN <<>> ELSE <<current>>)
    ELSE IF Head(text).c = "\n"
         THEN <<Append(current, Run("\n", 1))>>
                \o [i \in 1..(Head(text).n - 1) |-> <<Run("\n", 1)>>]
                \o SplitLinesFrom(Tail(text), <<>>)
         ELSE SplitLinesFrom(Tail(text), Append(current, Head(text)))

SplitLines(text) == SplitLinesFrom(text, <<>>)

\* max_diff_body_size (line 1142)
MaxDiffBodySize == 100000

\* Number of context lines of difflib.unified_diff (its default n)
ContextLines == 3

Min(a, b) == IF a < b THEN a ELSE b
Max(a, b) == IF a > b THEN a ELSE b

\* The number of leading lines two line lists have in common
RECURSIVE CommonPrefix(_, _)
CommonPrefix(a, b) ==
    IF a = <<>> \/ b = <<>> \/ Head(a) # Head(b) THEN 0
    ELSE 1 + CommonPrefix(Tail(a), Tail(b))

Reverse(seq) == [i \in 1..Len(seq) |-> seq[Len(seq) + 1 - i]]

DiffLine(mark, text) == [mark |-> mark, text |-> text]

\* list(difflib.unified_diff(a, b, fromfile, tofile, lineterm='')) for line
\* lists that differ in one stretch of lines (the lines between the common
\* head and the common tail have no line in common): nothing for equal
\* lists, else the two file lines and one hunk with up to three lines of
\* context on each side
UnifiedDiff(a, b, fromfile, tofile) ==
    IF a = b THEN <<>>
    ELSE LET head == CommonPrefix(a, b)
             tail == CommonPrefix(Reverse(SubSeq(a, head + 1, Len(a))),
                                  Reverse(SubSeq(b, head + 1, Len(b))))
             first == Max(1, head - ContextLines + 1)
             before == SubSeq(a, first, head)
             removed == SubSeq(a, head + 1, Len(a) - tail)
             added == SubSeq(b, head + 1, Len(b) - tail)
             after == SubSeq(a, Len(a) - tail + 1,
                             Min(Len(a), Len(a) - tail + ContextLines))
         IN <<DiffLine("---", fromfile), DiffLine("+++", tofile),
              DiffLine("@@", <<first, Len(before) + Len(removed) + Len(after),
                               first, Len(before) + Len(added) + Len(after)>>)>>
              \o [i \in 1..Len(before) |-> DiffLine(" ", before[i])]
              \o [i \in 1..Len(removed) |-> DiffLine("-", removed[i])]
              \o [i \in 1..Len(added) |-> DiffLine("+", added[i])]
              \o [i \in 1..Len(after) |-> DiffLine(" ", after[i])]

\* The text of a line begins with k or more characters c
BeginsWith(text, c, k) == text # <<>> /\ text[1].c = c /\ text[1].n >= k

\* The style the loop gives a diff line (lines 1201-1210), by the first
\* characters of the line: its mark and then its text
StyleOf(line) ==
    IF line.mark \in {"---", "+++"} THEN "header"
    ELSE IF line.mark = "@@" THEN "separator"
    ELSE IF line.mark = "+"
         THEN IF BeginsWith(line.text, "+", 2) THEN "header" ELSE "added"
    ELSE IF line.mark = "-"
         THEN IF BeginsWith(line.text, "-", 2) THEN "header" ELSE "removed"
    ELSE "normal"

TruncationMarker == [line |-> DiffLine("...", <<>>), style |-> "separator"]

\* A loop that stops one line later
RECURSIVE EmitDiff_OneMore(_, _, _)
EmitDiff_OneMore(diff, diff_line_count, max_diff_lines) ==
    IF diff = <<>> THEN <<>>
    ELSE IF diff_line_count > max_diff_lines THEN <<TruncationMarker>>
    ELSE <<[line |-> Head(diff), style |-> StyleOf(Head(diff))]>>
           \o EmitDiff_OneMore(Tail(diff), diff_line_count + 1, max_diff_lines)

\* for line in diff (lines 1193-1212): what is appended to diff_content
RECURSIVE EmitDiff(_, _, _)
EmitDiff(diff, diff_line_count, max_diff_lines) ==
    IF diff = <<>> THEN <<>>
    ELSE IF diff_line_count >= max_diff_lines THEN <<TruncationMarker>>
    ELSE <<[line |-> Head(diff), style |-> StyleOf(Head(diff))]>>
           \o EmitDiff(Tail(diff), diff_line_count + 1, max_diff_lines)

\* The part of _update_diff_view for one pair (lines 1148-1214): diff is
\* the list difflib returned, shown is what the loop appended
ComparePair(primary_domain, primary_data, other_domain, other_data) ==
    LET primary_body == IF TextLen(primary_data.body) > MaxDiffBodySize
                        THEN Truncate(primary_data.body, MaxDiffBodySize)
                        ELSE primary_data.body
        other_body == IF TextLen(other_data.body) > MaxDiffBodySize
                      THEN Truncate(other_data.body, MaxDiffBodySize)
                      ELSE other_data.body
        diff == UnifiedDiff(SplitLines(primary_body), SplitLines(other_body),
                            primary_domain, other_domain)
    IN [primary_domain |-> primary_domain, other_domain |-> other_domain,
        status_differs |-> primary_data.status # other_data.status,
        size_differs |-> primary_data.size # other_data.size,
        diff |-> diff,
        shown |-> EmitDiff(diff, 0, settings.max_diff_lines)]

\* _update_diff_view(result, responses, domains), lines 1122-1216: keys is
\* the argument domains, list(responses.keys()) in the order the dict gives
\* (line 1044)
UpdateDiffView(result, keys) ==
    IF result.match
    THEN [identical |-> TRUE, pairs |-> <<>>]
    ELSE [identical |-> FALSE,
          pairs |-> IF Len(keys) >= 2
                    THEN [i \in 1..(Len(keys) - 1) |->
                            ComparePair(keys[1], result.responses[keys[1]],
                                        keys[i + 1],
                                        result.responses[keys[i + 1]])]
                    ELSE <<>>]

\* ------------------------------------------------------------------------
\* Results of the primary b.c and one mirror x.c, stored and then shown in
\* the diff view
\* ------------------------------------------------------------------------

\* Number of results stored before the view is opened
MaxDiffResults == 1

\* The smallest "Max diff lines" Save Settings accepts (lines 1769-1770)
MinDiffLines == 50

\* k lines "c\n"
LinesOf(c, k) == [i \in 1..(2 * k) |-> IF i % 2 = 1 THEN Run(c, 1) ELSE Run("\n", 1)]

\* Body texts: one character; two lines that differ in the second; more
\* than MaxDiffBodySize characters that differ in the last one; 24 or 23
\* lines, whose diffs have MinDiffLines and MinDiffLines + 1 lines
DiffTexts ==
    { <<Run("a", 1)>>,
      <<Run("b", 1)>>,
      <<Run("h", 1), Run("\n", 1), Run("a", 1), Run("\n", 1)>>,
      <<Run("h", 1), Run("\n", 1), Run("b", 1), Run("\n", 1)>>,
      <<Run("x", MaxDiffBodySize), Run("a", 1)>>,
      <<Run("x", MaxDiffBodySize), Run("b", 1)>>,
      LinesOf("a", 24),
      LinesOf("b", 23),
      LinesOf("b", 24) }

InitDiff ==
    /\ entries = [id \in EntryIds |-> NoEntry]
    /\ domains = <<>>
    /\ pending_refresh = {}
    /\ refreshers = [t \in RefresherSlots |-> IdleRefresher]
    /\ result_objs = [id \in ResultIds |-> NoResult]
    /\ results = <<>>
    /\ inserted = <<>>
    /\ active_mirror_threads = 0
    /\ dispatches = [d \in DispatchSlots |-> IdleDispatch]
    /\ orphans = 0
    /\ log = {}
    /\ observed = NoCall
    /\ domains_lock = NoThread
    /\ refresh_all = IdleRefreshAll
    /\ capturers = [c \in CapturerSlots |-> IdleCapturer]
    /\ settings \in {[DefaultSettings EXCEPT !.max_diff_lines = n] :
                       n \in {MinDiffLines, DefaultSettings.max_diff_lines}}

\* The result _mirror_request_v2 assembles and stores for the bodies of the
\* primary and of one mirror (lines 2765-2776, 2835-2840, 2862-2865)
DiffStoreStep ==
    \E primary_text \in DiffTexts : \E mir_text \in DiffTexts :
      LET primary == ResponseRecord(Resp(200, <<>>, TextBody(primary_text)))
          mir == ResponseRecord(Resp(200, <<>>, TextBody(mir_text)))
      IN /\ Len(results) < MaxDiffResults
         /\ StoreInsert([method |-> "GET", path |-> P_d,
                         match |-> AllSame(<<primary.hash, mir.hash>>),
                         responses |-> [h \in {H_b, H_x} |->
                                          IF h = H_b THEN primary ELSE mir]])

\* _on_result_selected and _update_diff_view for a stored result
DiffViewCall ==
    \E i \in 1..Len(results) : \E keys \in {<<H_b, H_x>>, <<H_x, H_b>>} :
      /\ observed' = [NoCall EXCEPT
                        !.seq = 1, !.listener = "_update_diff_view",
                        !.row = results[i],
                        !.result = UpdateDiffView(result_objs[results[i]], keys)]
      /\ UNCHANGED progVars

NextDiff == DiffStoreStep \/ DiffViewCall

SpecDiff == InitDiff /\ [][NextDiff]_vars

Viewed == observed.listener = "_update_diff_view"

\* The pairs of the view that compare two given domains
PairsOf(view, a, b) ==
    {view.pairs[i] : i \in {j \in 1..Len(view.pairs) :
        {view.pairs[j].primary_domain, view.pairs[j].other_domain} = {a, b}}}

ShowsChange(pair) ==
    \E k \in 1..Len(pair.shown) : pair.shown[k].line.mark \in {"+", "-"}

\* C38: in the view of a stored result, for the mirror's response: when its
\* body equals the primary's, the unified diff of the two is empty; when the
\* bodies differ, match is false and the diff shown for the pair has an added
\* or a removed line
C38_DiffShowsDifference ==
    Viewed =>
      LET result == result_objs[observed.row]
          primary == result.responses[H_b]
      IN \A d \in DOMAIN result.responses \ {H_b} :
           LET other == result.responses[d]
               pairs == PairsOf(observed.result, H_b, d)
           IN IF other.body = primary.body
              THEN \A pair \in pairs : pair.diff = <<>>
              ELSE /\ ~result.match
                   /\ pairs # {}
                   /\ \A pair \in pairs : ShowsChange(pair)

IsShownLine(e) == e # TruncationMarker

SessionFile(top, members, items) == [top |-> top, members |-> members, results |-> items]

LoadedResult == [method |-> "GET", path |-> P_d, match |-> TRUE,
                 responses |-> [h \in {H_b} |-> ResponseRecord(Resp(200, <<>>, B_A))]]

\* The for loop of _load_session (lines 818-830): the store and the result
\* objects after it
RECURSIVE LoadResults(_, _, _, _)
LoadResults(rs, objs, items, max_results) ==
    IF items = <<>> \/ Len(rs) >= max_results
    THEN [results |-> rs, result_objs |-> objs]
    ELSE LET id == MinOf({i \in ResultIds : objs[i] = NoResult}) IN
         LoadResults(Append(rs, id), [objs EXCEPT ![id] = Head(items)],
                     Tail(items), max_results)

\* The result objects a load makes at most
NeededIds(file) == Min(Len(file.results), settings.max_results)

\* _load_session (lines 777-846) with the parsed file and the operator's
\* answer to "Merge / Replace / Cancel", which is asked when the store is
\* not empty.  An exception ends the handler where it is raised.
LoadSession(file, choice) ==
    LET asked == Len(results) > 0
        kept == IF asked /\ choice = "replace" THEN <<>> ELSE results
        loaded == LoadResults(kept, result_objs, file.results, settings.max_results)
    IN
    /\ Cardinality(FreeResultIds) >= NeededIds(file)
    /\ IF file.top = "invalid" \/ "results" \notin file.members
       THEN UNCHANGED storeVars
       ELSE IF asked /\ choice = "cancel"
       THEN UNCHANGED storeVars
       ELSE IF file.top # "object"
       THEN /\ results' = kept
            /\ UNCHANGED <<result_objs, inserted>>
       ELSE /\ results' = loaded.results
            /\ result_objs' = loaded.result_objs
            /\ UNCHANGED inserted
    /\ UNCHANGED <<regVars, refreshVars, dispatchVars, settings, threadVars>>

\* Files: no JSON; {"version": ..} without results; the array ["results"];
\* {"results": []}; files with 3 and with MinMaxResults + 1 results
SessionFiles ==
    { SessionFile("invalid", {}, <<>>),
      SessionFile("object", {"version", "exported"}, <<>>),
      SessionFile("array", {"results"}, <<>>),
      SessionFile("object", {"version", "results"}, <<>>),
      SessionFile("object", {"version", "results"}, [i \in 1..3 |-> LoadedResult]),
      SessionFile("object", {"results"}, [i \in 1..(MinMaxResults + 1) |-> LoadedResult]) }

LoadChoices == {"merge", "replace", "cancel"}

LoadCall ==
    \E file \in SessionFiles : \E choice \in LoadChoices :
      /\ LoadSession(file, choice)
      /\ observed' = [NoCall EXCEPT !.seq = 1 - observed.seq,
                                    !.listener = "_load_session",
                                    !.request = file, !.result = choice]

LoadInsertStep == StoreInsert(LoadedResult)

NextLoad == LoadInsertStep \/ LoadCall

SpecLoad == InitStore /\ [][NextLoad]_vars

\* The file is a JSON object with a member "results"
HasResultsField(file) == file.top = "object" /\ "results" \in file.members

\* C40: a load of a file without a results field leaves the store as it
\* was, and a load of a file with one never leaves more results in the
\* store than max_results
C40_LoadKeepsStoreWithinLimit ==
    [][(Called /\ observed'.listener = "_load_session")
       => IF HasResultsField(observed'.request)
          THEN Len(results') <= settings.max_results \/ results' = results
          ELSE results' = results]_vars

====
